---- MODULE Spec2Model ----
(***************************************************************************)
(* Model of eslint-plugin-data-boundaries: the schema-parser utilities,    *)
(* the no-cross-domain-prisma-access rule, the no-cross-schema-slonik-     *)
(* access rule and the no-cross-file-model-references rule.                *)
(*                                                                         *)
(* A JavaScript string is a sequence of one-character strings, so that     *)
(* indexOf, split, replace, regular expressions and case conversion are    *)
(* computed character by character as the code computes them.  A value     *)
(* that may be null is a sequence of length at most one: Null is <<>> and  *)
(* a value v is <<v>>.                                                     *)
(***************************************************************************)
EXTENDS Integers, Sequences, FiniteSets, TLC

VARIABLES
    pc,                 \* position of the host or caller: "start", "create", "visit", "done"
    call,               \* the pending call of a utility or of the parser, with its arguments
    ret,                \* what that call returned
    rule,               \* the rule whose create() the host runs on the file
    filename,           \* context.getFilename() of the file being linted
    options,            \* the rule options in force
    disk,               \* what the file system holds during the pass
    ast,                \* the Program node the parser produced for the file
    todo,               \* the nodes the host has still to enter, in traversal order
    visited,            \* number of nodes the host has entered
    listeners,          \* names of the listeners create() returned
    currentModule,      \* closure variable currentModule of create()
    modelToDomain,      \* closure variable modelToDomain of create()
    reportedConfigError,\* closure variable reportedConfigError of create()
    reports             \* findings passed to context.report, in order

vars == <<pc, call, ret, rule, filename, options, disk, ast, todo, visited, listeners,
          currentModule, modelToDomain, reportedConfigError, reports>>

----------------------------------------------------------------------------
(* Characters and JavaScript string primitives *)

LowerLetters == <<"a","b","c","d","e","f","g","h","i","j","k","l","m",
                  "n","o","p","q","r","s","t","u","v","w","x","y","z">>
UpperLetters == <<"A","B","C","D","E","F","G","H","I","J","K","L","M",
                  "N","O","P","Q","R","S","T","U","V","W","X","Y","Z">>
DigitChars == {"0","1","2","3","4","5","6","7","8","9"}

Range(s) == {s[i] : i \in DOMAIN s}

IsLowerLetter(c) == c \in Range(LowerLetters)
IsUpperLetter(c) == c \in Range(UpperLetters)
IsLetter(c) == IsLowerLetter(c) \/ IsUpperLetter(c)
IsDigit(c) == c \in DigitChars
\* \w of a regular expression without the u flag
IsWordChar(c) == IsLetter(c) \/ IsDigit(c) \/ c = "_"
\* \s of a regular expression
IsSpaceChar(c) == c \in {" ", "\t", "\n", "\r", "\f"}

Null == <<>>
Some(v) == <<v>>

\* String.prototype.toUpperCase / toLowerCase, one character
UpperOfChar(c) ==
    IF IsLowerLetter(c)
    THEN UpperLetters[CHOOSE i \in DOMAIN LowerLetters : LowerLetters[i] = c]
    ELSE c

LowerOfChar(c) ==
    IF IsUpperLetter(c)
    THEN LowerLetters[CHOOSE i \in DOMAIN UpperLetters : UpperLetters[i] = c]
    ELSE c

\* the concatenation of a sequence of sequences
RECURSIVE Flatten(_)
Flatten(ss) == IF ss = <<>> THEN <<>> ELSE Head(ss) \o Flatten(Tail(ss))

\* U+00DF, a letter whose upper-case form is two characters long
SharpS == "ß"

\* toUpperCase of a string maps each character to its full upper-case form,
\* which for U+00DF is "SS"
toUpperCase(s) ==
    Flatten([i \in DOMAIN s |->
                IF s[i] = SharpS THEN <<"S", "S">> ELSE <<UpperOfChar(s[i])>>])
toLowerCase(s) == [i \in DOMAIN s |-> LowerOfChar(s[i])]

Min(a, b) == IF a < b THEN a ELSE b
Max(a, b) == IF a > b THEN a ELSE b

\* s.substring(from, to) and s.substring(from), 0-based as in JavaScript:
\* both ends are clamped to 0..s.length and swapped when from > to
substring(s, from, to) ==
    LET a == Max(0, Min(from, Len(s)))
        b == Max(0, Min(to, Len(s)))
        lo == Min(a, b)
        hi == Max(a, b)
    IN  [i \in 1..(hi - lo) |-> s[lo + i]]
substringFrom(s, from) == substring(s, from, Len(s))

\* s.startsWith(t, at): t occurs in s at 0-based position at
OccursAt(s, t, at) ==
    /\ at >= 0
    /\ at + Len(t) <= Len(s)
    /\ \A k \in 1..Len(t) : s[at + k] = t[k]

\* s.indexOf(t): 0-based position of the first occurrence, -1 if none
indexOf(s, t) ==
    IF \E i \in 0..Len(s) : OccursAt(s, t, i)
    THEN CHOOSE i \in 0..Len(s) :
            /\ OccursAt(s, t, i)
            /\ \A j \in 0..(i - 1) : ~OccursAt(s, t, j)
    ELSE -1

includes(s, t) == indexOf(s, t) # -1

endsWith(s, t) == OccursAt(s, t, Len(s) - Len(t))

\* s.replace(/c/g, d) for single characters c and d
replaceChar(s, c, d) == [i \in DOMAIN s |-> IF s[i] = c THEN d ELSE s[i]]

\* s.split(c) for a single-character separator c
RECURSIVE split(_, _)
split(s, c) ==
    LET at == indexOf(s, <<c>>)
    IN  IF at = -1
        THEN <<s>>
        ELSE <<substring(s, 0, at)>> \o split(substringFrom(s, at + 1), c)

\* Array.prototype.includes
arrayIncludes(arr, x) == \E i \in DOMAIN arr : arr[i] = x

----------------------------------------------------------------------------
(* src/utils/schema-parser.ts *)

Slash == "/"
Backslash == "\\"
PrismaExt == <<".","p","r","i","s","m","a">>
StrSchema == <<"s","c","h","e","m","a">>
StrMain == <<"m","a","i","n">>
StrShared == <<"s","h","a","r","e","d">>

\* path.basename(p, ext) of Node's posix path module
basename(p, ext) ==
    LET RECURSIVE stripTrailing(_)
        stripTrailing(q) ==
            IF Len(q) > 1 /\ q[Len(q)] = Slash
            THEN stripTrailing(substring(q, 0, Len(q) - 1))
            ELSE q
        q == stripTrailing(p)
        parts == split(q, Slash)
        base == parts[Len(parts)]
    IN  IF p = ext THEN <<>>
        ELSE IF Len(base) > Len(ext) /\ endsWith(base, ext)
        THEN substring(base, 0, Len(base) - Len(ext))
        ELSE base

\* One iteration of the for-loop body of buildModelToDomainMapping, for a
\* file that was read and parsed: schema.list.forEach(...)
RECURSIVE recordModels(_, _, _)
recordModels(mapping, list, domainName) ==
    IF list = <<>>
    THEN mapping
    ELSE LET item == Head(list)
             next == IF item.type = "model" /\ item.name # <<>>
                     THEN [k \in (DOMAIN mapping) \cup {item.name} |->
                              IF k = item.name THEN domainName ELSE mapping[k]]
                     ELSE mapping
         IN  recordModels(next, Tail(list), domainName)

\* domainNameOf with the override for the base name main left out
domainNameOf_OnlySchemaShared(filePath) ==
    LET fileName == basename(filePath, PrismaExt)
    IN  IF fileName = StrSchema THEN StrShared ELSE fileName

domainNameOf(filePath) ==
    LET fileName == basename(filePath, PrismaExt)
    IN  IF fileName = StrSchema \/ fileName = StrMain THEN StrShared ELSE fileName

\* The for-loop of buildModelToDomainMapping over glob.sync's result.  The
\* object modelToDomain is created before the try block and filled in place,
\* so when readFileSync or getSchema throws, the catch block leaves in it what
\* the earlier files put there, and that object is returned.
RECURSIVE buildLoop(_, _)
buildLoop(mapping, schemaFiles) ==
    IF schemaFiles = <<>>
    THEN mapping
    ELSE LET file == Head(schemaFiles)
         IN  IF ~file.readable \/ ~file.parses
             THEN mapping
             ELSE buildLoop(recordModels(mapping, file.list, domainNameOf(file.filePath)),
                            Tail(schemaFiles))

EmptyMapping == [k \in {} |-> <<>>]

\* buildModelToDomainMapping that processes the files in the reverse order,
\* so that the first declaring file of glob's order wins
buildModelToDomainMapping_FirstWriterWins(dir) ==
    IF dir.globThrows
    THEN EmptyMapping
    ELSE buildLoop(EmptyMapping,
                   [i \in DOMAIN dir.schemaFiles |->
                       dir.schemaFiles[Len(dir.schemaFiles) + 1 - i]])

\* buildModelToDomainMapping(schemaDir); dir is what glob.sync finds under
\* schemaDir: dir.globThrows, or the sequence dir.schemaFiles
buildModelToDomainMapping(dir) ==
    IF dir.globThrows
    THEN EmptyMapping
    ELSE buildLoop(EmptyMapping, dir.schemaFiles)

\* extractModuleFromPath without the normalisation of the separators
extractModuleFromPath_NoNormalize(filePath, modulePath) ==
    LET moduleIndex == indexOf(filePath, modulePath)
        afterModulePath == substringFrom(filePath, moduleIndex + Len(modulePath))
        parts == SelectSeq(split(afterModulePath, Slash), LAMBDA part : Len(part) > 0)
    IN  IF moduleIndex = -1
        THEN Null
        ELSE IF Len(parts) > 0 THEN Some(parts[1]) ELSE Null

\* extractModuleFromPath(filePath, modulePath)
extractModuleFromPath(filePath, modulePath) ==
    LET normalizedPath == replaceChar(filePath, Backslash, Slash)
        normalizedModulePath == replaceChar(modulePath, Backslash, Slash)
        moduleIndex == indexOf(normalizedPath, normalizedModulePath)
        afterModulePath == substringFrom(normalizedPath, moduleIndex + Len(normalizedModulePath))
        parts == SelectSeq(split(afterModulePath, Slash), LAMBDA part : Len(part) > 0)
    IN  IF moduleIndex = -1
        THEN Null
        ELSE IF Len(parts) > 0 THEN Some(parts[1]) ELSE Null

commonMethods == <<
    <<"f","i","n","d","M","a","n","y">>,
    <<"f","i","n","d","F","i","r","s","t">>,
    <<"f","i","n","d","U","n","i","q","u","e">>,
    <<"c","r","e","a","t","e">>,
    <<"u","p","d","a","t","e">>,
    <<"d","e","l","e","t","e">>,
    <<"u","p","s","e","r","t">>,
    <<"c","o","u","n","t">>,
    <<"a","g","g","r","e","g","a","t","e">>,
    <<"f","i","n","d">>,
    <<"g","e","t">>,
    <<"c","o","n","n","e","c","t">>,
    <<"d","i","s","c","o","n","n","e","c","t">>,
    <<"e","x","e","c","u","t","e","R","a","w">>,
    <<"q","u","e","r","y","R","a","w">>,
    <<"t","r","a","n","s","a","c","t","i","o","n">> >>

commonProps == <<
    <<"l","e","n","g","t","h">>,
    <<"c","o","n","s","t","r","u","c","t","o","r">>,
    <<"p","r","o","t","o","t","y","p","e">>,
    <<"t","o","S","t","r","i","n","g">>,
    <<"v","a","l","u","e","O","f">> >>

\* /^[A-Za-z][A-Za-z0-9]*$/.test(name)
matchesIdentifierPattern(name) ==
    /\ Len(name) >= 1
    /\ IsLetter(name[1])
    /\ \A i \in 2..Len(name) : IsLetter(name[i]) \/ IsDigit(name[i])

\* /^\d/.test(name)
startsWithDigit(name) == Len(name) >= 1 /\ IsDigit(name[1])

\* isPrismaModelName without the all-upper-case test
isPrismaModelName_NoUpperCaseTest(name) ==
    IF arrayIncludes(commonMethods, name) \/ arrayIncludes(commonProps, name)
    THEN FALSE
    ELSE /\ Len(name) > 1
         /\ matchesIdentifierPattern(name)
         /\ ~startsWithDigit(name)

\* isPrismaModelName(name)
isPrismaModelName(name) ==
    IF arrayIncludes(commonMethods, name) \/ arrayIncludes(commonProps, name)
    THEN FALSE
    ELSE /\ Len(name) > 1
         /\ matchesIdentifierPattern(name)
         /\ ~startsWithDigit(name)
         /\ name # toUpperCase(name)

\* camelToPascalCase as a general capitalize: the remainder is lower-cased
camelToPascalCase_Capitalize(camelCase) ==
    toUpperCase(substring(camelCase, 0, 1))
        \o toLowerCase(substringFrom(camelCase, 1))

\* camelToPascalCase(camelCase)
camelToPascalCase(camelCase) ==
    toUpperCase(substring(camelCase, 0, 1)) \o substringFrom(camelCase, 1)

----------------------------------------------------------------------------
(* findProjectRoot of rules/no-cross-domain-prisma-access *)

StrDot == <<".">>

\* path.dirname(p) of Node's posix path module
dirname(p) ==
    LET hasRoot == Len(p) > 0 /\ p[1] = Slash
        ends == {i \in 2..Len(p) : p[i] = Slash /\ \E j \in (i + 1)..Len(p) : p[j] # Slash}
        end == (CHOOSE i \in ends : \A j \in ends : j <= i) - 1
    IN  IF Len(p) = 0 THEN StrDot
        ELSE IF ends = {} THEN (IF hasRoot THEN <<Slash>> ELSE StrDot)
        ELSE IF hasRoot /\ end = 1 THEN <<Slash, Slash>>
        ELSE substring(p, 0, end)

\* path.join(a, b) for a directory a and a relative path b without . or ..
pathJoin(a, b) ==
    IF Len(a) > 0 /\ a[Len(a)] = Slash THEN a \o b ELSE a \o <<Slash>> \o b

\* path.isAbsolute(p)
isAbsolute(p) == Len(p) > 0 /\ p[1] = Slash

\* fs.existsSync(path.join(dir, 'package.json'))
existsPackageJson(d, dir) == dir \in d.packageJson

\* findProjectRoot that falls back to the root directory instead of throwing
findProjectRoot_FallsBackToRoot(d, filePath) ==
    LET RECURSIVE walk(_)
        walk(dir) ==
            IF dir = dirname(dir)
            THEN Some(dir)
            ELSE IF existsPackageJson(d, dir)
            THEN Some(dir)
            ELSE walk(dirname(dir))
    IN  walk(dirname(filePath))

\* findProjectRoot(filePath): the directory found, or Null when it throws
findProjectRoot(d, filePath) ==
    LET RECURSIVE walk(_)
        walk(dir) ==
            IF dir = dirname(dir)
            THEN Null
            ELSE IF existsPackageJson(d, dir)
            THEN Some(dir)
            ELSE walk(dirname(dir))
    IN  walk(dirname(filePath))

----------------------------------------------------------------------------
(* Inputs of the schema-parser utilities *)

\* all sequences over S of length lo..hi
SeqsOf(S, lo, hi) == UNION {[1..n -> S] : n \in lo..hi}


\* the texts the tests and the inputs below are written with
Text ==
    [ ModulesMarker |-> <<"/","m","o","d","u","l","e","s","/">>,
      ModulesMarkerWin |-> <<"\\","m","o","d","u","l","e","s","\\">>,
      Auth |-> <<"a","u","t","h">>,
      Org |-> <<"o","r","g">>,
      FileTs |-> <<"x",".","t","s">>,
      User |-> <<"U","s","e","r">>,
      UserLc |-> <<"u","s","e","r">>,
      USER |-> <<"U","S","E","R">>,
      APIKey |-> <<"A","P","I","K","e","y">>,
      OAuthToken |-> <<"o","A","u","t","h","T","o","k","e","n">>,
      Organization |-> <<"O","r","g","a","n","i","z","a","t","i","o","n">>,
      Setting |-> <<"S","e","t","t","i","n","g">>,
      Role |-> <<"R","o","l","e">>,
      Client |-> <<"c","l","i","e","n","t">>,
      App |-> <<"/","a","p","p">>,
      SchemaDir |-> <<"/","a","p","p","/","s">>,
      RelSchemaDir |-> <<"s">>,
      Lib |-> <<"l","i","b">>,
      AppMarker |-> <<"/","a","p","p","/">>,
      OrganizationLc |-> <<"o","r","g","a","n","i","z","a","t","i","o","n">>,
      SettingLc |-> <<"s","e","t","t","i","n","g">>,
      Project |-> <<"p","r","o","j","e","c","t">>,
      Api |-> <<"a","p","i">>,
      FindMany |-> <<"f","i","n","d","M","a","n","y">>,
      Disconnect |-> <<"$","d","i","s","c","o","n","n","e","c","t">>,
      A |-> <<"a">>,
      B |-> <<"b">>,
      Users |-> <<"u","s","e","r","s">>,
      Teams |-> <<"t","e","a","m","s">>,
      Logs |-> <<"l","o","g","s">>,
      Id |-> <<"i","d">>,
      Gql |-> <<"g","q","l">>,
      Db |-> <<"d","b">>,
      Console |-> <<"c","o","n","s","o","l","e">>,
      Log |-> <<"l","o","g">>,
      Unsafe |-> <<"u","n","s","a","f","e">>,
      ValidFrom |-> <<"v","a","l","i","d","_","f","r","o","m">>,
      LastUpdate |-> <<"l","a","s","t","_","u","p","d","a","t","e">>,
      X |-> <<"x">>,
      Use |-> <<"U","s","e">>,
      Post |-> <<"P","o","s","t">>,
      Unsupported |-> <<"U","n","s","u","p","p","o","r","t","e","d">>,
      Index |-> <<"@","@","i","n","d","e","x">>,
      FieldA |-> <<"a","u","t","h","o","r">>,
      FieldB |-> <<"o","w","n","e","r">>,
      \* model names: six whose accessor is in the block-lists, one in upper
      \* case, one with an underscore and one of neither kind
      ModelNames |->
          << <<"T","r","a","n","s","a","c","t","i","o","n">>,
             <<"C","o","u","n","t">>,
             <<"C","o","n","n","e","c","t">>,
             <<"F","i","n","d">>,
             <<"G","e","t">>,
             <<"A","g","g","r","e","g","a","t","e">>,
             <<"U","R","L">>,
             <<"U","s","e","r","_","x">>,
             <<"T","e","a","m">> >> ]

MaxPathParts == 4

MaxNameLen == 3


Item(t, n) == [type |-> t, name |-> n]

SchemaFile(p, r, ok, l) == [filePath |-> p, readable |-> r, parses |-> ok, list |-> l]

MaxFiles == 2

Dir(t, fs) == [globThrows |-> t, schemaFiles |-> fs]

UtilCalls ==
    LET PathFragments ==
            {Text.ModulesMarker, Text.ModulesMarkerWin, Text.Auth, Text.Lib, Text.FileTs,
             <<Slash>>, <<Backslash>>}
        Paths == {Flatten(ps) : ps \in SeqsOf(PathFragments, 1, MaxPathParts)}
        Markers == {Text.ModulesMarker, Text.ModulesMarkerWin}
        NameAlphabet == {"a", "Z", "7", "_"}
        Names ==
            SeqsOf(NameAlphabet, 0, MaxNameLen)
                \cup Range(commonMethods) \cup Range(commonProps)
                \cup {Text.User, Text.UserLc, Text.USER, Text.APIKey, Text.OAuthToken}
                \cup {<<SharpS>>, <<SharpS, "a">>, <<"a", SharpS>>}
        \* what getSchema(content).list can be for one schema file
        SchemaLists ==
            { <<>>,
              <<Item("generator", Text.Client), Item("model", Text.User), Item("enum", Text.Role)>>,
              <<Item("model", Text.Organization), Item("model", Text.User)>>,
              <<Item("model", Text.Setting)>>,
              <<Item("enum", Text.Role), Item("model", Text.Organization)>> }
        SchemaFilePaths ==
            { Text.SchemaDir \o <<Slash>> \o Text.Auth \o PrismaExt,
              Text.SchemaDir \o <<Slash>> \o StrSchema \o PrismaExt,
              Text.SchemaDir \o <<"/","s","u","b","/">> \o StrMain \o PrismaExt,
              Text.SchemaDir \o <<"/","s","u","b","/">> \o StrMain \o <<"s">> \o PrismaExt }
        \* a file is readable and parses to a list, or is unreadable, or fails to parse
        SchemaFiles ==
            {SchemaFile(p, TRUE, TRUE, l) : p \in SchemaFilePaths, l \in SchemaLists}
                \cup {SchemaFile(p, FALSE, FALSE, <<>>) : p \in SchemaFilePaths}
                \cup {SchemaFile(p, TRUE, FALSE, <<>>) : p \in SchemaFilePaths}
        \* glob.sync returns each matching path once, in an order the code does not fix
        Listings ==
            {fs \in SeqsOf(SchemaFiles, 0, MaxFiles) :
                \A i, j \in DOMAIN fs : i # j => fs[i].filePath # fs[j].filePath}
        Dirs == {Dir(FALSE, fs) : fs \in Listings} \cup {Dir(TRUE, <<>>)}
        \* absolute file names, and the directories that hold a package.json
        LintedFiles ==
            { Text.App \o Text.ModulesMarker \o Text.Auth \o <<Slash>> \o Text.FileTs,
              Text.App \o <<Slash>> \o Text.FileTs,
              Text.ModulesMarker \o Text.Auth \o <<Slash>> \o Text.FileTs,
              <<Slash>> \o Text.FileTs }
        ProjectDirs ==
            { <<Slash>>, Text.App, Text.App \o <<Slash>> \o Text.Lib,
              Text.App \o Text.ModulesMarker \o Text.Auth,
              <<"/","m","o","d","u","l","e","s">> }
    IN  {[fn |-> "extractModuleFromPath", filePath |-> p, modulePath |-> m] :
            p \in Paths, m \in Markers}
            \cup {[fn |-> "isPrismaModelName", name |-> n] : n \in Names}
            \cup {[fn |-> "camelToPascalCase", camelCase |-> n] : n \in Names}
            \cup {[fn |-> "buildModelToDomainMapping", schemaDir |-> d] : d \in Dirs}
            \cup {[fn |-> "findProjectRoot", filePath |-> f,
                   disk |-> [packageJson |-> pj, schemaDirs |-> <<>>]] :
                      f \in LintedFiles, pj \in SUBSET ProjectDirs}

----------------------------------------------------------------------------
(* The utilities called on their own, as the unit tests call them *)

NoCall == [fn |-> "none"]
NoOptions == [modulePath |-> <<>>, schemaDir |-> <<>>]
NoDisk == [packageJson |-> {}, schemaDirs |-> <<>>]
NoProgram == [type |-> "Program", body |-> <<>>, services |-> Null]

IdleChecker ==
    /\ rule = "none"
    /\ filename = <<>>
    /\ options = NoOptions
    /\ disk = NoDisk
    /\ ast = NoProgram
    /\ todo = <<>>
    /\ visited = 0
    /\ listeners = {}
    /\ currentModule = Null
    /\ modelToDomain = EmptyMapping
    /\ reportedConfigError = FALSE
    /\ reports = <<>>

checkerVars == <<rule, filename, options, disk, ast, todo, visited, listeners, currentModule,
                 modelToDomain, reportedConfigError, reports>>

InitUtils ==
    /\ pc = "start"
    /\ call \in UtilCalls
    /\ ret = Null
    /\ IdleChecker

CallExtractModuleFromPath ==
    /\ pc = "start"
    /\ call.fn = "extractModuleFromPath"
    /\ ret' = extractModuleFromPath(call.filePath, call.modulePath)
    /\ pc' = "done"
    /\ UNCHANGED <<call, checkerVars>>

CallIsPrismaModelName ==
    /\ pc = "start"
    /\ call.fn = "isPrismaModelName"
    /\ ret' = isPrismaModelName(call.name)
    /\ pc' = "done"
    /\ UNCHANGED <<call, checkerVars>>

CallCamelToPascalCase ==
    /\ pc = "start"
    /\ call.fn = "camelToPascalCase"
    /\ ret' = camelToPascalCase(call.camelCase)
    /\ pc' = "done"
    /\ UNCHANGED <<call, checkerVars>>

CallBuildModelToDomainMapping ==
    /\ pc = "start"
    /\ call.fn = "buildModelToDomainMapping"
    /\ ret' = buildModelToDomainMapping(call.schemaDir)
    /\ pc' = "done"
    /\ UNCHANGED <<call, checkerVars>>

\* findProjectRoot(filePath) of the access rule, called on its own; Null
\* is returned for the Error it throws
CallFindProjectRoot ==
    /\ pc = "start"
    /\ call.fn = "findProjectRoot"
    /\ ret' = findProjectRoot(call.disk, call.filePath)
    /\ pc' = "done"
    /\ UNCHANGED <<call, checkerVars>>

NextUtils ==
    \/ CallExtractModuleFromPath
    \/ CallIsPrismaModelName
    \/ CallCamelToPascalCase
    \/ CallBuildModelToDomainMapping
    \/ CallFindProjectRoot

SpecUtils == InitUtils /\ [][NextUtils]_vars

----------------------------------------------------------------------------
(* Properties of the schema-parser utilities, checked under SpecUtils *)

Returned(fn) == pc = "done" /\ call.fn = fn

\* the files of a listing that declare a model named m, by position
DeclaringFiles(fs, m) ==
    {i \in DOMAIN fs : \E k \in DOMAIN fs[i].list :
        fs[i].list[k].type = "model" /\ fs[i].list[k].name = m}

DeclaredModels(fs) ==
    {fs[i].list[k].name : <<i, k>> \in
        {<<i, k>> \in (DOMAIN fs) \X (1..8) :
            k \in DOMAIN fs[i].list /\ fs[i].list[k].type = "model"}}

DeclaredEnums(fs) ==
    {fs[i].list[k].name : <<i, k>> \in
        {<<i, k>> \in (DOMAIN fs) \X (1..8) :
            k \in DOMAIN fs[i].list /\ fs[i].list[k].type = "enum"}}

\* the name of a schema file without directories and without .prisma: the
\* text between the last slash and the extension
FileLabel(p) ==
    CHOOSE lbl \in {substring(p, a, Len(p) - Len(PrismaExt)) : a \in 0..Len(p)} :
        /\ ~includes(lbl, <<Slash>>)
        /\ \E pre \in {substring(p, 0, a) : a \in 0..Len(p)} :
              /\ p = pre \o lbl \o PrismaExt
              /\ (pre = <<>> \/ pre[Len(pre)] = Slash)

ExpectedDomain(p) ==
    IF FileLabel(p) \in {StrSchema, StrMain} THEN StrShared ELSE FileLabel(p)

AllFilesParse(dir) ==
    /\ ~dir.globThrows
    /\ \A i \in DOMAIN dir.schemaFiles :
          dir.schemaFiles[i].readable /\ dir.schemaFiles[i].parses

\* C5: for a schema directory whose files all parse, the keys of the mapping
\* returned by buildModelToDomainMapping are exactly the declared model names
\* (a name declared only as an enum is not a key), and each model maps to the
\* label of the file declaring it (of the last such file in glob order when
\* several declare it): the file's base name without .prisma, or "shared" for
\* the base names schema and main.
C5_MappingKeysAndDomains ==
    (Returned("buildModelToDomainMapping") /\ AllFilesParse(call.schemaDir)) =>
        LET fs == call.schemaDir.schemaFiles
        IN  /\ DOMAIN ret = DeclaredModels(fs)
            /\ \A e \in DeclaredEnums(fs) \ DeclaredModels(fs) : e \notin DOMAIN ret
            /\ \A m \in DeclaredModels(fs) :
                  LET last == CHOOSE i \in DeclaringFiles(fs, m) :
                                  \A j \in DeclaringFiles(fs, m) : j <= i
                  IN  ret[m] = ExpectedDomain(fs[last].filePath)

\* C5 witness: a directory of two parsing files, one of them named schema or
\* main, has been indexed; its models map to "shared", another model maps to
\* its file's base name, and an enum was declared but is no key.
C5_Witness ==
    /\ Returned("buildModelToDomainMapping")
    /\ AllFilesParse(call.schemaDir)
    /\ Len(call.schemaDir.schemaFiles) = 2
    /\ \E m \in DOMAIN ret : ret[m] = StrShared
    /\ \E m \in DOMAIN ret : ret[m] = Text.Auth
    /\ Text.Role \in DeclaredEnums(call.schemaDir.schemaFiles)
    /\ Text.Role \notin DOMAIN ret

NormalizeSeparators(s) == [i \in DOMAIN s |-> IF s[i] = Backslash THEN Slash ELSE s[i]]

\* s contains t as a contiguous substring
Contains(s, t) == \E a \in 0..Len(s) : OccursAt(s, t, a)

FirstOccurrence(s, t) ==
    CHOOSE a \in 0..Len(s) : OccursAt(s, t, a) /\ \A b \in 0..(a - 1) : ~OccursAt(s, t, b)

\* the run of characters of s from 0-based position a up to the next
\* separator in seps or the end of s
SegmentAt(s, a, seps) ==
    LET stop == CHOOSE e \in a..Len(s) :
                    /\ \A i \in (a + 1)..e : s[i] \notin seps
                    /\ (e = Len(s) \/ s[e + 1] \in seps)
    IN  substring(s, a, stop)

\* C9 as stated: when the path P contains the marker M the result is the path
\* segment immediately following the first occurrence of M, and when P does
\* not contain M the result is null.
C9_Original ==
    Returned("extractModuleFromPath") =>
        LET P == call.filePath
            M == call.modulePath
        IN  IF Contains(P, M)
            THEN ret = Some(SegmentAt(P, FirstOccurrence(P, M) + Len(M), {Slash, Backslash}))
            ELSE ret = Null

\* C9 amended: with P' and M' the path and the marker after every backslash
\* is replaced by a slash, the result is null when P' does not contain M';
\* otherwise it is the first non-empty slash-separated segment of the text
\* that follows the first occurrence of M' in P', and null when that text has
\* no non-empty segment.
C9_ExtractModule ==
    Returned("extractModuleFromPath") =>
        LET P == NormalizeSeparators(call.filePath)
            M == NormalizeSeparators(call.modulePath)
        IN  IF ~Contains(P, M)
            THEN ret = Null
            ELSE LET from == FirstOccurrence(P, M) + Len(M)
                     starts == {a \in from..(Len(P) - 1) : P[a + 1] # Slash}
                 IN  IF starts = {}
                     THEN ret = Null
                     ELSE LET a == CHOOSE x \in starts : \A y \in starts : x <= y
                          IN  ret = Some(SegmentAt(P, a, {Slash}))

\* C9 witness: a path written with backslashes, in which the marker is
\* followed by an empty segment, by the module directory and by a file, has
\* been classified with the label of the module directory.
C9_Witness ==
    /\ Returned("extractModuleFromPath")
    /\ call.modulePath = Text.ModulesMarker
    /\ call.filePath = Text.ModulesMarkerWin \o <<Backslash>> \o Text.Auth \o <<Backslash>>
    /\ ret = Some(Text.Auth)

\* C10: isPrismaModelName(n) is true exactly when n is in neither block-list,
\* is longer than one character, starts with a letter, continues with letters
\* and digits only, and is not entirely upper-case (upper-casing changes it,
\* that is, it has a lower-case letter).
C10_IsPrismaModelName ==
    Returned("isPrismaModelName") =>
        LET n == call.name
        IN  ret = ( /\ n \notin Range(commonMethods)
                    /\ n \notin Range(commonProps)
                    /\ Len(n) > 1
                    /\ \A i \in DOMAIN n :
                          \/ IsLetter(n[i])
                          \/ (i > 1 /\ IsDigit(n[i]))
                    /\ \E i \in DOMAIN n : IsLowerLetter(n[i]) )

\* C10 witness: the classifier has accepted a mixed-case name that starts
\* with an upper-case letter.
C10_Witness ==
    /\ Returned("isPrismaModelName")
    /\ call.name = Text.APIKey
    /\ ret = TRUE

\* C11 as stated: camelToPascalCase is idempotent, is the identity on input
\* whose first character is upper-case, maps the empty string to the empty
\* string, and for every input returns a string of the same length with the
\* same characters at every position after the first.
C11_Original ==
    Returned("camelToPascalCase") =>
        LET s == call.camelCase
        IN  /\ camelToPascalCase(ret) = ret
            /\ (s # <<>> /\ IsUpperLetter(s[1]) => ret = s)
            /\ (s = <<>> => ret = <<>>)
            /\ Len(ret) = Len(s)
            /\ \A i \in 2..Len(s) : ret[i] = s[i]

\* C11: camelToPascalCase is idempotent, is the identity on input whose first
\* character is upper-case, and maps the empty string to the empty string;
\* the characters after the first are kept unchanged as the end of the
\* result; the result has the length of the input, except that a first
\* character U+00DF becomes the two characters "SS" and the result is one
\* longer.
C11_FirstCharacterOnly ==
    Returned("camelToPascalCase") =>
        LET s == call.camelCase
            grow == IF s # <<>> /\ s[1] = SharpS THEN 1 ELSE 0
        IN  /\ camelToPascalCase(ret) = ret
            /\ (s # <<>> /\ IsUpperLetter(s[1]) => ret = s)
            /\ (s = <<>> => ret = <<>>)
            /\ Len(ret) = Len(s) + grow
            /\ \A i \in 2..Len(s) : ret[i + grow] = s[i]
            /\ (grow = 0 /\ s # <<>> => ret[1] = UpperOfChar(s[1]))
            /\ (grow = 1 => ret[1] = "S" /\ ret[2] = "S")

\* C11 witness: a name that starts with U+00DF has been converted and the
\* result is one character longer than the name.
C11_Witness ==
    /\ Returned("camelToPascalCase")
    /\ call.camelCase = <<SharpS, "a">>
    /\ ret = <<"S", "S", "a">>

\* C14 as stated: when the enumeration of the directory, the read of a file
\* or the parse of a file fails, buildModelToDomainMapping returns (it does
\* not throw) and what it returns is the empty mapping, however many files
\* were processed before the failure.
C14_Original ==
    (Returned("buildModelToDomainMapping") /\ ~AllFilesParse(call.schemaDir)) =>
        ret = EmptyMapping

\* the files of a listing that precede its first unreadable or unparsable file
BeforeFailure(fs) ==
    SubSeq(fs, 1, (CHOOSE i \in DOMAIN fs :
                      /\ ~fs[i].readable \/ ~fs[i].parses
                      /\ \A j \in 1..(i - 1) : fs[j].readable /\ fs[j].parses) - 1)

\* C14, what the code does: the call always returns; when the enumeration
\* fails the result is empty, and when a file cannot be read or parsed the
\* result holds exactly the models of the files that precede the first such
\* file in glob order.
C14_KeepsEarlierFiles ==
    (Returned("buildModelToDomainMapping") /\ ~AllFilesParse(call.schemaDir)) =>
        IF call.schemaDir.globThrows
        THEN ret = EmptyMapping
        ELSE DOMAIN ret = DeclaredModels(BeforeFailure(call.schemaDir.schemaFiles))

\* C14 witness: the second of two files could not be parsed and the mapping
\* returned holds the model of the first file.
C14_Witness ==
    /\ Returned("buildModelToDomainMapping")
    /\ Len(call.schemaDir.schemaFiles) = 2
    /\ call.schemaDir.schemaFiles[1].parses
    /\ call.schemaDir.schemaFiles[2].readable
    /\ ~call.schemaDir.schemaFiles[2].parses
    /\ Text.User \in DOMAIN ret
    /\ ret[Text.User] = Text.Auth

\* the listing without the declarations of the model m
WithoutModel(fs, m) ==
    [i \in DOMAIN fs |->
        [fs[i] EXCEPT !.list = SelectSeq(fs[i].list,
                                         LAMBDA it : ~(it.type = "model" /\ it.name = m))]]

\* C25: for a schema directory whose files all parse and a model name that
\* two or more of its files declare, buildModelToDomainMapping returns, the
\* mapping holds for that name the domain label of the declaring file that
\* comes last in glob order, and every other model has the entry it has when
\* the declarations of the duplicated name are taken out of the files.
C25_LastWriterWins ==
    (Returned("buildModelToDomainMapping") /\ AllFilesParse(call.schemaDir)) =>
        LET fs == call.schemaDir.schemaFiles
        IN  \A m \in DeclaredModels(fs) :
               Cardinality(DeclaringFiles(fs, m)) >= 2 =>
                  LET last == CHOOSE i \in DeclaringFiles(fs, m) :
                                  \A j \in DeclaringFiles(fs, m) : j <= i
                      rest == buildModelToDomainMapping(Dir(FALSE, WithoutModel(fs, m)))
                  IN  /\ m \in DOMAIN ret
                      /\ ret[m] = ExpectedDomain(fs[last].filePath)
                      /\ DOMAIN ret \ {m} = DOMAIN rest
                      /\ \A n \in DOMAIN rest : ret[n] = rest[n]

\* C25 witness: auth.prisma and then schema.prisma were processed, both
\* declare User, and the mapping returned holds "shared" for User and an
\* entry for Organization.
C25_Witness ==
    /\ Returned("buildModelToDomainMapping")
    /\ AllFilesParse(call.schemaDir)
    /\ Len(call.schemaDir.schemaFiles) = 2
    /\ FileLabel(call.schemaDir.schemaFiles[1].filePath) = Text.Auth
    /\ FileLabel(call.schemaDir.schemaFiles[2].filePath) = StrSchema
    /\ DeclaringFiles(call.schemaDir.schemaFiles, Text.User) = {1, 2}
    /\ ret[Text.User] = StrShared
    /\ Text.Organization \in DOMAIN ret

----------------------------------------------------------------------------
(* The syntax tree and the host's traversal *)

Id(n) == [type |-> "Identifier", name |-> n]
ThisExpr == [type |-> "ThisExpression"]
Lit(v) == [type |-> "Literal", value |-> v]
Member(o, p) == [type |-> "MemberExpression", object |-> o, property |-> p, computed |-> FALSE]
Computed(o, p) == [type |-> "MemberExpression", object |-> o, property |-> p, computed |-> TRUE]
CallOf(f) == [type |-> "CallExpression", callee |-> f, arguments |-> <<>>]
Stmt(e) == [type |-> "ExpressionStatement", expression |-> e]
TemplateElement(raw) == [type |-> "TemplateElement", value |-> [raw |-> raw]]
TemplateLiteral(qs, es) ==
    [type |-> "TemplateLiteral",
     quasis |-> [i \in DOMAIN qs |-> TemplateElement(qs[i])],
     expressions |-> es]
Tagged(t, qs, es) ==
    [type |-> "TaggedTemplateExpression", tag |-> t, quasi |-> TemplateLiteral(qs, es)]
Program(body, services) == [type |-> "Program", body |-> body, services |-> services]

\* the child nodes of a node, in the order of the visitor keys
Children(node) ==
    CASE node.type = "Program" -> node.body
      [] node.type = "ExpressionStatement" -> <<node.expression>>
      [] node.type = "CallExpression" -> <<node.callee>> \o node.arguments
      [] node.type = "MemberExpression" -> <<node.object, node.property>>
      [] node.type = "TaggedTemplateExpression" -> <<node.tag, node.quasi>>
      [] node.type = "TemplateLiteral" -> node.quasis \o node.expressions
      [] OTHER -> <<>>

\* the nodes of a tree in the order in which the host enters them
RECURSIVE Preorder(_)
Preorder(node) ==
    LET RECURSIVE each(_)
        each(ns) == IF ns = <<>> THEN <<>> ELSE Preorder(Head(ns)) \o each(Tail(ns))
    IN  <<node>> \o each(Children(node))

Report(at, messageId, data) == [at |-> at, messageId |-> messageId, data |-> data]

----------------------------------------------------------------------------
(* rules/no-cross-domain-prisma-access *)

StrPrisma == <<"p","r","i","s","m","a">>
ExtTs == <<".","t","s">>
ExtTsx == <<".","t","s","x">>

\* isPrismaClientAccess recognizing the direct access only
isPrismaClientAccess_DirectOnly(node) ==
    node.object.type = "Identifier" /\ node.object.name = StrPrisma

\* isPrismaClientAccess(node)
isPrismaClientAccess(node) ==
    IF node.object.type = "Identifier" /\ node.object.name = StrPrisma
    THEN TRUE
    ELSE IF node.object.type = "MemberExpression"
    THEN node.object.property.type = "Identifier" /\ node.object.property.name = StrPrisma
    ELSE FALSE

\* getModelNameFromMemberExpression(node)
getModelNameFromMemberExpression(node) ==
    IF node.property.type = "Identifier" THEN Some(node.property.name) ELSE Null

\* what glob.sync and the reads find under schemaDir
readSchemaDir(d, schemaDir) ==
    IF schemaDir \in DOMAIN d.schemaDirs
    THEN d.schemaDirs[schemaDir]
    ELSE Dir(FALSE, <<>>)

\* filename.match(/\.(ts|tsx)$/)
matchesTsExtension(name) == endsWith(name, ExtTs) \/ endsWith(name, ExtTsx)

\* the first test of create() without the test of the extension
isOutsideModules_AnyExtension(name, modulePath) == ~includes(name, modulePath)

\* !filename.includes(options.modulePath) || !filename.match(/\.(ts|tsx)$/),
\* the first test of create() in both rules for application code
isOutsideModules(name, modulePath) ==
    ~includes(name, modulePath) \/ ~matchesTsExtension(name)

\* modelToDomain[pascalModelName]: Null stands for undefined.  The key starts
\* with an upper-case letter, so no property inherited from Object.prototype
\* is ever found.
lookupDomain(mapping, key) ==
    IF key \in DOMAIN mapping THEN Some(mapping[key]) ELSE Null

\* !modelDomain
isFalsy(v) == v = Null \/ v = Some(<<>>)

\* the MemberExpression listener without the first-letter conversion
memberExpressionReports_NoCasing(node, at, module, mapping) ==
    LET modelName == getModelNameFromMemberExpression(node)
        modelDomain == lookupDomain(mapping, modelName[1])
    IN  IF ~isPrismaClientAccess(node) THEN <<>>
        ELSE IF modelName = Null \/ ~isPrismaModelName(modelName[1]) THEN <<>>
        ELSE IF isFalsy(modelDomain)
        THEN <<Report(at, "modelNotFound", [modelName |-> modelName[1]])>>
        ELSE IF module # modelDomain[1]
        THEN <<Report(at, "crossDomainAccess",
                      [currentModule |-> module,
                       modelName |-> modelName[1],
                       modelDomain |-> modelDomain[1]])>>
        ELSE <<>>

\* the MemberExpression listener treating an unknown model as nothing to report
memberExpressionReports_SilentNotFound(node, at, module, mapping) ==
    LET modelName == getModelNameFromMemberExpression(node)
        pascalModelName == camelToPascalCase(modelName[1])
        modelDomain == lookupDomain(mapping, pascalModelName)
    IN  IF ~isPrismaClientAccess(node) THEN <<>>
        ELSE IF modelName = Null \/ ~isPrismaModelName(modelName[1]) THEN <<>>
        ELSE IF isFalsy(modelDomain) THEN <<>>
        ELSE IF module # modelDomain[1]
        THEN <<Report(at, "crossDomainAccess",
                      [currentModule |-> module,
                       modelName |-> pascalModelName,
                       modelDomain |-> modelDomain[1]])>>
        ELSE <<>>

\* the MemberExpression listener with the shared domain always allowed, as
\* the legacy option allowSharedModels did
memberExpressionReports_AllowShared(node, at, module, mapping) ==
    LET modelName == getModelNameFromMemberExpression(node)
        pascalModelName == camelToPascalCase(modelName[1])
        modelDomain == lookupDomain(mapping, pascalModelName)
    IN  IF ~isPrismaClientAccess(node) THEN <<>>
        ELSE IF modelName = Null \/ ~isPrismaModelName(modelName[1]) THEN <<>>
        ELSE IF isFalsy(modelDomain)
        THEN <<Report(at, "modelNotFound", [modelName |-> pascalModelName])>>
        ELSE IF modelDomain[1] = StrShared THEN <<>>
        ELSE IF module # modelDomain[1]
        THEN <<Report(at, "crossDomainAccess",
                      [currentModule |-> module,
                       modelName |-> pascalModelName,
                       modelDomain |-> modelDomain[1]])>>
        ELSE <<>>

\* the body of the MemberExpression listener: the findings it reports for the
\* node visited at position at
memberExpressionReports(node, at, module, mapping) ==
    LET modelName == getModelNameFromMemberExpression(node)
        pascalModelName == camelToPascalCase(modelName[1])
        modelDomain == lookupDomain(mapping, pascalModelName)
    IN  IF ~isPrismaClientAccess(node) THEN <<>>
        ELSE IF modelName = Null \/ ~isPrismaModelName(modelName[1]) THEN <<>>
        ELSE IF isFalsy(modelDomain)
        THEN <<Report(at, "modelNotFound", [modelName |-> pascalModelName])>>
        ELSE IF module # modelDomain[1]
        THEN <<Report(at, "crossDomainAccess",
                      [currentModule |-> module,
                       modelName |-> pascalModelName,
                       modelDomain |-> modelDomain[1]])>>
        ELSE <<>>

\* create(context, [options]) of no-cross-domain-prisma-access
CreatePrisma ==
    /\ pc = "create"
    /\ rule = "no-cross-domain-prisma-access"
    /\ pc' = "visit"
    /\ IF isOutsideModules(filename, options.modulePath)
       THEN /\ listeners' = {}
            /\ UNCHANGED <<currentModule, modelToDomain>>
       ELSE LET module == extractModuleFromPath(filename, options.modulePath)
                projectRoot == findProjectRoot(disk, filename)
            IN  IF module = Null
                THEN /\ listeners' = {}
                     /\ UNCHANGED <<currentModule, modelToDomain>>
                ELSE /\ currentModule' = module
                     /\ IF isAbsolute(options.schemaDir)
                        THEN /\ modelToDomain' = buildModelToDomainMapping(
                                    readSchemaDir(disk, options.schemaDir))
                             /\ listeners' = {"MemberExpression"}
                        ELSE IF projectRoot = Null
                        THEN /\ listeners' = {"Program"}
                             /\ UNCHANGED modelToDomain
                        ELSE /\ modelToDomain' = buildModelToDomainMapping(
                                    readSchemaDir(disk, pathJoin(projectRoot[1], options.schemaDir)))
                             /\ listeners' = {"MemberExpression"}
    /\ UNCHANGED <<call, ret, rule, filename, options, disk, ast, todo, visited,
                   reportedConfigError, reports>>

\* the node the host visits next, and the step that moves past it
NextNode == Head(todo)

Advance ==
    /\ todo' = Tail(todo)
    /\ visited' = visited + 1
    /\ pc' = IF Tail(todo) = <<>> THEN "done" ELSE "visit"

\* the host enters a node for whose type the rule returned no listener
HostSkip ==
    /\ pc = "visit"
    /\ NextNode.type \notin listeners
    /\ Advance
    /\ UNCHANGED <<call, ret, rule, filename, options, disk, ast, listeners,
                   currentModule, modelToDomain, reportedConfigError, reports>>

\* the Program listener returned on the configuration-error path
ProgramConfigError ==
    /\ pc = "visit"
    /\ rule = "no-cross-domain-prisma-access"
    /\ NextNode.type = "Program"
    /\ "Program" \in listeners
    /\ IF ~reportedConfigError
       THEN /\ reports' = Append(reports, Report(visited + 1, "configError", <<>>))
            /\ reportedConfigError' = TRUE
       ELSE UNCHANGED <<reports, reportedConfigError>>
    /\ Advance
    /\ UNCHANGED <<call, ret, rule, filename, options, disk, ast, listeners,
                   currentModule, modelToDomain>>

\* a MemberExpression listener that empties the index after its visit
MemberExpressionPrisma_DropsIndex ==
    /\ pc = "visit"
    /\ rule = "no-cross-domain-prisma-access"
    /\ NextNode.type = "MemberExpression"
    /\ "MemberExpression" \in listeners
    /\ reports' = reports \o
            memberExpressionReports(NextNode, visited + 1, currentModule[1], modelToDomain)
    /\ modelToDomain' = EmptyMapping
    /\ Advance
    /\ UNCHANGED <<call, ret, rule, filename, options, disk, ast, listeners,
                   currentModule, reportedConfigError>>

\* the MemberExpression listener
MemberExpressionPrisma ==
    /\ pc = "visit"
    /\ rule = "no-cross-domain-prisma-access"
    /\ NextNode.type = "MemberExpression"
    /\ "MemberExpression" \in listeners
    /\ reports' = reports \o
            memberExpressionReports(NextNode, visited + 1, currentModule[1], modelToDomain)
    /\ Advance
    /\ UNCHANGED <<call, ret, rule, filename, options, disk, ast, listeners,
                   currentModule, modelToDomain, reportedConfigError>>

----------------------------------------------------------------------------
(* Files, options, file systems and programs the access rule is run on *)


FileInModule(m, file) == Text.App \o Text.ModulesMarker \o m \o <<Slash>> \o file

\* options and the file system they are resolved on
Configurations ==
    LET SchemaPath(lbl) == Text.SchemaDir \o <<Slash>> \o lbl \o PrismaExt
        \* the schema directory of the test fixtures: auth, organization and shared models
        FixtureListing ==
            << SchemaFile(SchemaPath(Text.Auth), TRUE, TRUE,
                   <<Item("generator", Text.Client), Item("model", Text.User), Item("enum", Text.Role)>>),
               SchemaFile(SchemaPath(Text.Org), TRUE, TRUE, <<Item("model", Text.Organization)>>),
               SchemaFile(SchemaPath(StrSchema), TRUE, TRUE, <<Item("model", Text.Setting)>>) >>
        \* the same directory with an organization file that does not parse
        BrokenListing ==
            [FixtureListing EXCEPT ![2] = SchemaFile(SchemaPath(Text.Org), TRUE, FALSE, <<>>)]
        Disk(pj, listing) ==
            [packageJson |-> pj,
             schemaDirs |-> [d \in {Text.SchemaDir} |-> Dir(FALSE, listing)]]
        \* a schema directory whose file org.prisma declares the models of
        \* Text.ModelNames
        NamesListing ==
            << SchemaFile(SchemaPath(Text.Org), TRUE, TRUE,
                   [k \in DOMAIN Text.ModelNames |-> Item("model", Text.ModelNames[k])]) >>
        Options(m, d) == [modulePath |-> m, schemaDir |-> d]
        Configuration(o, d) == [options |-> o, disk |-> d]
    IN  { \* an absolute schemaDir, as in the tests
          Configuration(Options(Text.ModulesMarker, Text.SchemaDir), Disk({}, FixtureListing)),
          Configuration(Options(Text.ModulesMarker, Text.SchemaDir), Disk({}, BrokenListing)),
          \* an absolute schemaDir that does not exist
          Configuration(Options(Text.ModulesMarker, Text.SchemaDir),
                        [packageJson |-> {Text.App}, schemaDirs |-> <<>>]),
          \* a relative schemaDir, with and without a package.json above the file
          Configuration(Options(Text.ModulesMarker, Text.RelSchemaDir),
                        Disk({Text.App}, FixtureListing)),
          Configuration(Options(Text.ModulesMarker, Text.RelSchemaDir), Disk({}, FixtureListing)),
          \* another modulePath
          Configuration(Options(Text.AppMarker, Text.SchemaDir), Disk({}, FixtureListing)),
          \* a modulePath that the file name ends with: nothing follows it
          Configuration(Options(<<Slash>> \o Text.FileTs, Text.SchemaDir),
                        Disk({}, FixtureListing)),
          Configuration(Options(Text.ModulesMarker, Text.SchemaDir), Disk({}, NamesListing)) }

\* this.prisma.<accessor>.findMany()
ThisPrismaCall(accessor) ==
    CallOf(Member(Member(Member(ThisExpr, Id(StrPrisma)), Id(accessor)), Id(Text.FindMany)))

MaxStatements == 2

\* the programs of up to maxStatements statements
PrismaProgramsOf(maxStatements) ==
    LET PrismaStatements ==
            { Stmt(ThisPrismaCall(Text.OrganizationLc)),
              Stmt(ThisPrismaCall(Text.SettingLc)),
              Stmt(ThisPrismaCall(Text.Project)),
              Stmt(CallOf(Member(Member(Id(StrPrisma), Id(Text.UserLc)), Id(Text.FindMany)))),
              Stmt(CallOf(Member(Member(Member(ThisExpr, Id(Text.Api)), Id(Text.UserLc)), Id(Text.FindMany)))),
              Stmt(CallOf(Member(Id(StrPrisma), Id(Text.Disconnect)))) }
        \* a.b.prisma.user, prisma.a.user, prisma[user], prisma['user'],
        \* this.prisma[project], this.prisma['user'], prisma[a()], this.prisma[a()]
        OtherAccesses ==
            { Stmt(Member(Member(Member(Id(Text.A), Id(Text.B)), Id(StrPrisma)), Id(Text.UserLc))),
              Stmt(Member(Member(Id(StrPrisma), Id(Text.A)), Id(Text.UserLc))),
              Stmt(Computed(Id(StrPrisma), Id(Text.UserLc))),
              Stmt(Computed(Id(StrPrisma), Lit(Text.UserLc))),
              Stmt(Computed(Member(ThisExpr, Id(StrPrisma)), Id(Text.Project))),
              Stmt(Computed(Member(ThisExpr, Id(StrPrisma)), Lit(Text.UserLc))),
              Stmt(Computed(Id(StrPrisma), CallOf(Id(Text.A)))),
              Stmt(Computed(Member(ThisExpr, Id(StrPrisma)), CallOf(Id(Text.A)))) }
        \* prisma.<m> for the accessor m the client exposes for a model M: M
        \* with its first letter in lower case
        AccessorOf(M) == <<LowerOfChar(M[1])>> \o Tail(M)
        ModelAccesses ==
            {Stmt(Member(Id(StrPrisma), Id(AccessorOf(Text.ModelNames[k])))) :
                k \in DOMAIN Text.ModelNames}
    IN  {Program(body, Null) : body \in SeqsOf(PrismaStatements, 0, maxStatements)}
            \cup {Program(<<st>>, Null) : st \in OtherAccesses \cup ModelAccesses}

PrismaPrograms == PrismaProgramsOf(MaxStatements)

\* the programs of the files the rule does not check
ShortPrismaPrograms == PrismaProgramsOf(2)

IdleCaller == call = NoCall /\ ret = Null

InitPrisma ==
    LET FileNames ==
            { FileInModule(Text.Auth, Text.FileTs),
              FileInModule(Text.Org, Text.FileTs \o <<"x">>),
              FileInModule(StrShared, Text.FileTs),
              FileInModule(Text.Auth, <<"x",".","j","s">>),
              Text.App \o <<Slash>> \o Text.Lib \o <<Slash>> \o Text.FileTs,
              replaceChar(FileInModule(Text.Auth, Text.FileTs), Slash, Backslash) }
    IN  /\ pc = "create"
        /\ IdleCaller
        /\ rule = "no-cross-domain-prisma-access"
        /\ filename \in FileNames
        /\ \E c \in Configurations : options = c.options /\ disk = c.disk
        /\ ast \in IF \/ isOutsideModules(filename, options.modulePath)
                       \/ extractModuleFromPath(filename, options.modulePath) = Null
                    THEN ShortPrismaPrograms
                    ELSE PrismaPrograms
        /\ todo = Preorder(ast)
        /\ visited = 0
        /\ listeners = {}
        /\ currentModule = Null
        /\ modelToDomain = EmptyMapping
        /\ reportedConfigError = FALSE
        /\ reports = <<>>

NextPrisma ==
    \/ CreatePrisma
    \/ HostSkip
    \/ ProgramConfigError
    \/ MemberExpressionPrisma

SpecPrisma == InitPrisma /\ [][NextPrisma]_vars

----------------------------------------------------------------------------
(* The legacy build of rules/no-cross-domain-prisma-access, with the option *)
(* allowSharedModels and the fixed marker /modules/                         *)

\* the legacy MemberExpression listener exempting the shared domain whatever
\* the option says
legacyMemberExpressionReports_IgnoresOption(node, at, module, mapping, allowSharedModels) ==
    LET modelName == getModelNameFromMemberExpression(node)
        pascalModelName == camelToPascalCase(modelName[1])
        modelDomain == lookupDomain(mapping, pascalModelName)
    IN  IF ~isPrismaClientAccess(node) THEN <<>>
        ELSE IF modelName = Null \/ ~isPrismaModelName(modelName[1]) THEN <<>>
        ELSE IF isFalsy(modelDomain)
        THEN <<Report(at, "modelNotFound", [modelName |-> pascalModelName])>>
        ELSE IF modelDomain[1] = StrShared THEN <<>>
        ELSE IF module # modelDomain[1]
        THEN <<Report(at, "crossDomainAccess",
                      [currentModule |-> module,
                       modelName |-> pascalModelName,
                       modelDomain |-> modelDomain[1]])>>
        ELSE <<>>

\* the body of the legacy MemberExpression listener: the findings it reports
\* for the node visited at position at
legacyMemberExpressionReports(node, at, module, mapping, allowSharedModels) ==
    LET modelName == getModelNameFromMemberExpression(node)
        pascalModelName == camelToPascalCase(modelName[1])
        modelDomain == lookupDomain(mapping, pascalModelName)
    IN  IF ~isPrismaClientAccess(node) THEN <<>>
        ELSE IF modelName = Null \/ ~isPrismaModelName(modelName[1]) THEN <<>>
        ELSE IF isFalsy(modelDomain)
        THEN <<Report(at, "modelNotFound", [modelName |-> pascalModelName])>>
        ELSE IF allowSharedModels /\ modelDomain[1] = StrShared THEN <<>>
        ELSE IF module # modelDomain[1]
        THEN <<Report(at, "crossDomainAccess",
                      [currentModule |-> module,
                       modelName |-> pascalModelName,
                       modelDomain |-> modelDomain[1]])>>
        ELSE <<>>

\* create(context, [options]) of the legacy rule: the marker is /modules/,
\* and the project root is looked for inside the try block
CreateLegacy ==
    /\ pc = "create"
    /\ rule = "no-cross-domain-prisma-access"
    /\ pc' = "visit"
    /\ IF isOutsideModules(filename, Text.ModulesMarker)
       THEN /\ listeners' = {}
            /\ UNCHANGED <<currentModule, modelToDomain>>
       ELSE LET module == extractModuleFromPath(filename, Text.ModulesMarker)
                projectRoot == findProjectRoot(disk, filename)
            IN  IF module = Null
                THEN /\ listeners' = {}
                     /\ UNCHANGED <<currentModule, modelToDomain>>
                ELSE /\ currentModule' = module
                     /\ IF isAbsolute(options.schemaDir)
                        THEN /\ modelToDomain' = buildModelToDomainMapping(
                                    readSchemaDir(disk, options.schemaDir))
                             /\ listeners' = {"MemberExpression"}
                        ELSE IF projectRoot = Null
                        THEN /\ listeners' = {"Program"}
                             /\ UNCHANGED modelToDomain
                        ELSE /\ modelToDomain' = buildModelToDomainMapping(
                                    readSchemaDir(disk, pathJoin(projectRoot[1], options.schemaDir)))
                             /\ listeners' = {"MemberExpression"}
    /\ UNCHANGED <<call, ret, rule, filename, options, disk, ast, todo, visited,
                   reportedConfigError, reports>>

\* the MemberExpression listener of the legacy rule
MemberExpressionLegacy ==
    /\ pc = "visit"
    /\ rule = "no-cross-domain-prisma-access"
    /\ NextNode.type = "MemberExpression"
    /\ "MemberExpression" \in listeners
    /\ reports' = reports \o
            legacyMemberExpressionReports(NextNode, visited + 1, currentModule[1],
                                          modelToDomain, options.allowSharedModels)
    /\ Advance
    /\ UNCHANGED <<call, ret, rule, filename, options, disk, ast, listeners,
                   currentModule, modelToDomain, reportedConfigError>>

\* the legacy rule on the files, file systems and programs of the access
\* rule, with allowSharedModels set and cleared
InitLegacy ==
    LET FileNames ==
            { FileInModule(Text.Auth, Text.FileTs),
              FileInModule(Text.Org, Text.FileTs \o <<"x">>),
              FileInModule(StrShared, Text.FileTs),
              FileInModule(Text.Auth, <<"x",".","j","s">>),
              Text.App \o <<Slash>> \o Text.Lib \o <<Slash>> \o Text.FileTs }
    IN  /\ pc = "create"
        /\ IdleCaller
        /\ rule = "no-cross-domain-prisma-access"
        /\ filename \in FileNames
        /\ \E c \in Configurations, allow \in BOOLEAN :
              /\ options = [schemaDir |-> c.options.schemaDir, allowSharedModels |-> allow]
              /\ disk = c.disk
        /\ ast \in IF \/ isOutsideModules(filename, Text.ModulesMarker)
                       \/ extractModuleFromPath(filename, Text.ModulesMarker) = Null
                    THEN ShortPrismaPrograms
                    ELSE PrismaPrograms
        /\ todo = Preorder(ast)
        /\ visited = 0
        /\ listeners = {}
        /\ currentModule = Null
        /\ modelToDomain = EmptyMapping
        /\ reportedConfigError = FALSE
        /\ reports = <<>>

NextLegacy ==
    \/ CreateLegacy
    \/ HostSkip
    \/ ProgramConfigError
    \/ MemberExpressionLegacy

SpecLegacy == InitLegacy /\ [][NextLegacy]_vars

----------------------------------------------------------------------------
(* Properties of the access rule, checked under SpecPrisma *)

Nodes == Preorder(ast)

\* the file is one the rules do not check: its path does not contain the
\* configured marker, or its name does not end in .ts or .tsx, or no module
\* label follows the marker
GateClosed ==
    \/ ~Contains(filename, options.modulePath)
    \/ ~\E ext \in {ExtTs, ExtTsx} :
            /\ Len(filename) >= Len(ext)
            /\ \A i \in DOMAIN ext : filename[Len(filename) - Len(ext) + i] = ext[i]
    \/ extractModuleFromPath(filename, options.modulePath) = Null

ReportsAt(i) == SelectSeq(reports, LAMBDA r : r.at = i)

\* the pass of the access rule is over and its MemberExpression listener ran
AccessPassDone ==
    /\ rule = "no-cross-domain-prisma-access"
    /\ pc = "done"
    /\ "MemberExpression" \in listeners

\* the accessor with its first letter in upper case
DeclarationCased(n) == [i \in DOMAIN n |-> IF i = 1 THEN UpperOfChar(n[i]) ELSE n[i]]

\* a recognized client access whose accessor passes the name check
IsNamedAccess(n) ==
    /\ n.type = "MemberExpression"
    /\ isPrismaClientAccess(n)
    /\ n.property.type = "Identifier"
    /\ isPrismaModelName(n.property.name)

CrossDomainFinding(i, model) ==
    Report(i, "crossDomainAccess",
           [currentModule |-> currentModule[1],
            modelName |-> model,
            modelDomain |-> modelToDomain[model]])

\* position in the traversal of the k-th statement of the program
RECURSIVE StatementStart(_)
StatementStart(k) ==
    IF k = 1 THEN 2 ELSE StatementStart(k - 1) + Len(Preorder(ast.body[k - 1]))

ReportsInStatement(k) ==
    SelectSeq(reports, LAMBDA r :
        /\ r.at >= StatementStart(k)
        /\ r.at < StatementStart(k) + Len(Preorder(ast.body[k])))

\* a statement that is a method call on a client access: <access>.<method>()
IsAccessCallChain(st) ==
    /\ st.expression.type = "CallExpression"
    /\ st.expression.callee.type = "MemberExpression"
    /\ IsNamedAccess(st.expression.callee.object)

\* C1: when the pass is over, every recognized client access whose accessor
\* passes the name check and whose declaration-cased name M is a key of the
\* index has exactly one finding, crossDomainAccess with currentModule, M and
\* M's domain, if that domain differs from the current module, and has no
\* finding if they are equal; and a statement that is a call chain on such an
\* access has that many findings in total over all its nested nodes.
C1_OneFindingPerIndexedAccess ==
    AccessPassDone =>
        /\ \A i \in DOMAIN Nodes :
              (IsNamedAccess(Nodes[i])
                  /\ DeclarationCased(Nodes[i].property.name) \in DOMAIN modelToDomain) =>
                 LET M == DeclarationCased(Nodes[i].property.name)
                 IN  ReportsAt(i) = IF modelToDomain[M] # currentModule[1]
                                    THEN <<CrossDomainFinding(i, M)>>
                                    ELSE <<>>
        /\ \A k \in DOMAIN ast.body :
              (IsAccessCallChain(ast.body[k])
                  /\ DeclarationCased(ast.body[k].expression.callee.object.property.name)
                        \in DOMAIN modelToDomain) =>
                 LET M == DeclarationCased(ast.body[k].expression.callee.object.property.name)
                 IN  Len(ReportsInStatement(k)) =
                        IF modelToDomain[M] # currentModule[1] THEN 1 ELSE 0

\* C1 witness: in a file of module auth the chain
\* this.prisma.organization.findMany() followed by prisma.user.findMany() has
\* been visited; the whole pass reported one finding, the cross-domain access
\* to Organization.
C1_Witness ==
    /\ AccessPassDone
    /\ currentModule = Some(Text.Auth)
    /\ Len(ast.body) = 2
    /\ ast.body[1] = Stmt(ThisPrismaCall(Text.OrganizationLc))
    /\ IsAccessCallChain(ast.body[2])
    /\ ast.body[2].expression.callee.object.property.name = Text.UserLc
    /\ Len(reports) = 1
    /\ reports[1].messageId = "crossDomainAccess"
    /\ reports[1].data = [currentModule |-> Text.Auth,
                          modelName |-> Text.Organization,
                          modelDomain |-> Text.Org]

\* the findings a named access is due: one unless its model is in the index
\* with the domain of the current module
FindingsDue(n) ==
    LET M == DeclarationCased(n.property.name)
    IN  IF M \in DOMAIN modelToDomain /\ modelToDomain[M] = currentModule[1] THEN 0 ELSE 1

\* C6: when the pass is over, every recognized client access whose accessor
\* passes the name check and whose declaration-cased name M is no key of the
\* index has exactly one finding, modelNotFound carrying M, whatever the
\* current module is, and every named access visited after it has the
\* findings it is due.
C6_ModelNotFound ==
    AccessPassDone =>
        \A i \in DOMAIN Nodes :
            (IsNamedAccess(Nodes[i])
                /\ DeclarationCased(Nodes[i].property.name) \notin DOMAIN modelToDomain) =>
               /\ ReportsAt(i) =
                     <<Report(i, "modelNotFound",
                              [modelName |-> DeclarationCased(Nodes[i].property.name)])>>
               /\ \A j \in DOMAIN Nodes :
                     (j > i /\ IsNamedAccess(Nodes[j])) =>
                        Len(ReportsAt(j)) = FindingsDue(Nodes[j])

\* C6 witness: with a non-empty index, an access to the unknown model Project
\* was reported as modelNotFound and the access to Organization after it was
\* still reported as crossDomainAccess.
C6_Witness ==
    /\ AccessPassDone
    /\ modelToDomain # EmptyMapping
    /\ Len(reports) = 2
    /\ reports[1].messageId = "modelNotFound"
    /\ reports[1].data = [modelName |-> <<"P">> \o Tail(Text.Project)]
    /\ reports[2].messageId = "crossDomainAccess"
    /\ reports[2].at > reports[1].at

\* C7: when the pass is over, every named access to a model whose domain is
\* "shared" has exactly one crossDomainAccess finding with modelDomain
\* "shared" if the current module is not "shared", and no finding if the
\* current module is "shared".
C7_SharedNotExempt ==
    AccessPassDone =>
        \A i \in DOMAIN Nodes :
            (IsNamedAccess(Nodes[i])
                /\ DeclarationCased(Nodes[i].property.name) \in DOMAIN modelToDomain
                /\ modelToDomain[DeclarationCased(Nodes[i].property.name)] = StrShared) =>
               IF currentModule # Some(StrShared)
               THEN /\ Len(ReportsAt(i)) = 1
                    /\ ReportsAt(i)[1].messageId = "crossDomainAccess"
                    /\ ReportsAt(i)[1].data.modelDomain = StrShared
                    /\ ReportsAt(i)[1].data.currentModule = currentModule[1]
               ELSE ReportsAt(i) = <<>>

\* C7 witness: from module auth the shared model Setting was accessed and
\* reported with modelDomain "shared".
C7_Witness ==
    /\ AccessPassDone
    /\ currentModule = Some(Text.Auth)
    /\ \E k \in DOMAIN reports :
          /\ reports[k].messageId = "crossDomainAccess"
          /\ reports[k].data.modelName = Text.Setting
          /\ reports[k].data.modelDomain = StrShared

\* the receiver of the access is the identifier prisma, or a property access
\* with the property prisma on this or on an identifier
IsShallowAccess(n) ==
    /\ n.type = "MemberExpression"
    /\ \/ n.object = Id(StrPrisma)
       \/ /\ n.object.type = "MemberExpression"
          /\ n.object.property = Id(StrPrisma)
          /\ n.object.object.type \in {"ThisExpression", "Identifier"}

\* the receiver of the access is the identifier prisma, or a property access
\* with the property prisma on any expression
IsClientAccess(n) ==
    /\ n.type = "MemberExpression"
    /\ \/ n.object = Id(StrPrisma)
       \/ n.object.type = "MemberExpression" /\ n.object.property = Id(StrPrisma)

\* C17 as stated: only an access of the shapes prisma.entity and
\* receiver.prisma.entity, with this or an identifier as receiver, has a
\* finding; a deeper chain such as a.b.prisma.entity has none, and an access
\* through another receiver has none.
C17_Original ==
    AccessPassDone =>
        \A i \in DOMAIN Nodes : ReportsAt(i) # <<>> => IsShallowAccess(Nodes[i])

\* C17: when the pass is over, only an access whose receiver is the
\* identifier prisma or a property access with the property prisma has a
\* finding, whatever that property is accessed on (this.prisma.entity,
\* a.b.prisma.entity); such an access with a model name that is not in the
\* index, or is indexed in another domain, has exactly one finding; an access
\* through another receiver (this.api.user, prisma.a.user,
\* this.prisma.user.findMany) has none.
C17_Recognition ==
    AccessPassDone =>
        \A i \in DOMAIN Nodes :
            /\ ReportsAt(i) # <<>> => IsClientAccess(Nodes[i])
            /\ (/\ IsClientAccess(Nodes[i])
                /\ ~Nodes[i].computed
                /\ isPrismaModelName(Nodes[i].property.name)
                /\ LET M == DeclarationCased(Nodes[i].property.name)
                   IN  M \in DOMAIN modelToDomain => modelToDomain[M] # currentModule[1]) =>
                   Len(ReportsAt(i)) = 1

\* C17 witness: the access a.b.prisma.user in a file of module org has been
\* visited and has its crossDomainAccess finding.
C17_Witness ==
    /\ AccessPassDone
    /\ currentModule = Some(Text.Org)
    /\ ast.body = <<Stmt(Member(Member(Member(Id(Text.A), Id(Text.B)), Id(StrPrisma)),
                                Id(Text.UserLc)))>>
    /\ Text.User \in DOMAIN modelToDomain
    /\ reports = <<CrossDomainFinding(3, Text.User)>>

\* a computed access on the client: prisma[expr], this.prisma[expr]
IsComputedClientAccess(n) == IsClientAccess(n) /\ n.computed

\* C22 as stated: when the pass is over, a computed access on the client,
\* prisma[expr] or this.prisma[expr], has no finding, whatever expression
\* stands between the brackets.
C22_Original ==
    AccessPassDone =>
        \A i \in DOMAIN Nodes : IsComputedClientAccess(Nodes[i]) => ReportsAt(i) = <<>>

\* C22, what the code does: a computed access on the client has no finding
\* when the expression between the brackets is a string literal or a call;
\* when it is an identifier, the name of that variable is taken for the
\* accessor: if it passes the name check, the access has one modelNotFound
\* finding when its declaration-cased name is no key of the index, one
\* crossDomainAccess finding when it is indexed in another domain, and none
\* when it is indexed in the current module.
C22_VariableTakenForAccessor ==
    AccessPassDone =>
        \A i \in DOMAIN Nodes :
            IsComputedClientAccess(Nodes[i]) =>
               IF Nodes[i].property.type = "Identifier"
                     /\ isPrismaModelName(Nodes[i].property.name)
               THEN LET M == DeclarationCased(Nodes[i].property.name)
                    IN  ReportsAt(i) =
                           IF M \notin DOMAIN modelToDomain
                           THEN <<Report(i, "modelNotFound", [modelName |-> M])>>
                           ELSE IF modelToDomain[M] # currentModule[1]
                           THEN <<CrossDomainFinding(i, M)>>
                           ELSE <<>>
               ELSE ReportsAt(i) = <<>>

\* C22 witness: in a file of module org the computed access prisma[user],
\* with the variable user between the brackets, has been visited and has a
\* crossDomainAccess finding for the model User.
C22_Witness ==
    /\ AccessPassDone
    /\ currentModule = Some(Text.Org)
    /\ ast.body = <<Stmt(Computed(Id(StrPrisma), Id(Text.UserLc)))>>
    /\ Text.User \in DOMAIN modelToDomain
    /\ reports = <<CrossDomainFinding(3, Text.User)>>

\* the directories above the file, the root directory excluded
DirectoriesAbove(p) == {substring(p, 0, i - 1) : i \in {j \in 2..Len(p) : p[j] = Slash}}

\* the file passes the gate, schemaDir is relative and no directory above
\* the file holds a package.json: locating the project root fails
ProjectRootNotFound ==
    /\ rule = "no-cross-domain-prisma-access"
    /\ ~GateClosed
    /\ options.schemaDir = <<>> \/ options.schemaDir[1] # Slash
    /\ DirectoriesAbove(filename) \cap disk.packageJson = {}

\* C13: when locating the project root fails, then at every point of the
\* pass after the Program node has been visited the findings are exactly
\* one configError finding on the Program node, and before that visit there
\* is none; no modelNotFound or crossDomainAccess finding is ever reported,
\* however many client accesses the file contains.
C13_OneConfigError ==
    (pc # "create" /\ ProjectRootNotFound) =>
        /\ Nodes[1].type = "Program"
        /\ reports = IF visited = 0 THEN <<>> ELSE <<Report(1, "configError", <<>>)>>

\* C13 witness: the pass over a file with two client accesses of other
\* domains is over, no project root was found and the only finding is the
\* configError on the Program node.
C13_Witness ==
    /\ pc = "done"
    /\ ProjectRootNotFound
    /\ Len(ast.body) = 2
    /\ \A k \in 1..2 : ast.body[k] = Stmt(ThisPrismaCall(Text.OrganizationLc))
    /\ reports = <<Report(1, "configError", <<>>)>>

\* the longest of a non-empty set of directories that lie above one file
Nearest(dirs) == CHOOSE d \in dirs : \A e \in dirs : Len(e) <= Len(d)

\* C24 as stated: findProjectRoot returns the nearest directory above the
\* file that holds a package.json, the root directory included, and throws
\* exactly when neither a directory above the file nor the root directory
\* holds one.  Checked under SpecUtils.
C24_Original ==
    Returned("findProjectRoot") =>
        LET holders == (DirectoriesAbove(call.filePath) \cup {<<Slash>>})
                          \cap call.disk.packageJson
        IN  ret = IF holders = {} THEN Null ELSE Some(Nearest(holders))

\* C24, what the code does: findProjectRoot returns the nearest directory
\* above the file, the root directory excluded, that holds a package.json,
\* and throws when there is none: the loop ends when it reaches the root
\* directory, before it has looked for a package.json there, so a
\* package.json in the root directory alone is never found.  Checked under
\* SpecUtils.
C24_RootNeverTested ==
    Returned("findProjectRoot") =>
        LET holders == DirectoriesAbove(call.filePath) \cap call.disk.packageJson
        IN  ret = IF holders = {} THEN Null ELSE Some(Nearest(holders))

\* C24 witness: for /modules/auth/x.ts with a package.json in the root
\* directory only, findProjectRoot has thrown.
C24_Witness ==
    /\ Returned("findProjectRoot")
    /\ call.filePath = Text.ModulesMarker \o Text.Auth \o <<Slash>> \o Text.FileTs
    /\ call.disk.packageJson = {<<Slash>>}
    /\ ret = Null

\* the index of a file that passes the gate: built from the schema
\* directory the options name, resolved against the nearest directory above
\* the file with a package.json when it is relative; empty when that
\* directory is not found
IndexOfRun ==
    LET roots == DirectoriesAbove(filename) \cap disk.packageJson
        schemaDir == IF options.schemaDir # <<>> /\ options.schemaDir[1] = Slash
                     THEN options.schemaDir
                     ELSE Nearest(roots) \o <<Slash>> \o options.schemaDir
    IN  IF ProjectRootNotFound THEN EmptyMapping
        ELSE IF schemaDir \in DOMAIN disk.schemaDirs
        THEN buildModelToDomainMapping(disk.schemaDirs[schemaDir])
        ELSE EmptyMapping

\* findings without the place they are reported at
WithoutPlace(rs) == [k \in DOMAIN rs |-> [messageId |-> rs[k].messageId, data |-> rs[k].data]]

\* when create() has just returned: for a file that fails the gate nothing
\* was built and there is no label, for a file that passes it the index is
\* the one built from the schema directory and the label is the file's
IndexAsBuilt ==
    (rule = "no-cross-domain-prisma-access" /\ pc = "visit" /\ visited = 0) =>
        IF GateClosed
        THEN modelToDomain = EmptyMapping /\ currentModule = Null
        ELSE /\ modelToDomain = IndexOfRun
             /\ currentModule = extractModuleFromPath(filename, options.modulePath)

\* two visited nodes that are the same access have the same findings
SameAccessSameFindings ==
    (rule = "no-cross-domain-prisma-access" /\ pc # "create") =>
        \A ns \in {Nodes} :
            \A i, j \in 1..visited :
                (i < j /\ ns[i] = ns[j]) =>
                    WithoutPlace(ReportsAt(i)) = WithoutPlace(ReportsAt(j))

\* a step of the pass after create() leaves the index and the label alone
IndexUntouched ==
    (rule = "no-cross-domain-prisma-access" /\ pc # "create") =>
        UNCHANGED <<modelToDomain, currentModule>>

\* C26: in a pass of the access rule the index is built by create() only:
\* when create() returns, nothing was built and there is no label for a file
\* that fails the gate, and for a file that passes it the index is the one
\* built from the schema directory and the label is the one of the file; no
\* visit of a node changes the index or the label afterwards; and two
\* visited nodes that are the same access have the same findings, wherever
\* they stand in the traversal.
C26_IndexBuiltOnce ==
    /\ [](IndexAsBuilt /\ SameAccessSameFindings)
    /\ [][IndexUntouched]_vars

\* C26 witness: in a file of module auth the access this.prisma.setting was
\* visited twice, in two statements, with the index still as it was built;
\* both visits reported the same crossDomainAccess finding.
C26_Witness ==
    /\ AccessPassDone
    /\ currentModule = Some(Text.Auth)
    /\ modelToDomain = IndexOfRun
    /\ Text.Setting \in DOMAIN modelToDomain
    /\ ast.body = <<Stmt(ThisPrismaCall(Text.SettingLc)), Stmt(ThisPrismaCall(Text.SettingLc))>>
    /\ Len(reports) = 2
    /\ reports[1].at < reports[2].at
    /\ WithoutPlace(reports) = WithoutPlace(<<CrossDomainFinding(0, Text.Setting),
                                              CrossDomainFinding(0, Text.Setting)>>)

\* a client access written with a plain property name whose
\* declaration-cased name is indexed in a domain other than the current
\* module
IsForeignModelAccess(n) ==
    /\ IsClientAccess(n)
    /\ ~n.computed
    /\ n.property.type = "Identifier"
    /\ DeclarationCased(n.property.name) \in DOMAIN modelToDomain
    /\ modelToDomain[DeclarationCased(n.property.name)] # currentModule[1]

\* C27 as stated: when the pass is over, every client access prisma.<m>
\* whose model, m with its first letter in upper case, is indexed in a
\* domain other than the current module has its crossDomainAccess finding,
\* whatever the name of the model is.
C27_Original ==
    AccessPassDone =>
        \A i \in DOMAIN Nodes :
            IsForeignModelAccess(Nodes[i]) =>
               ReportsAt(i) = <<CrossDomainFinding(i, DeclarationCased(Nodes[i].property.name))>>

\* C27, what the code does: such an access has its crossDomainAccess
\* finding exactly when the accessor is in neither block-list, is longer
\* than one character and consists of letters and digits, of which one is a
\* lower-case letter; otherwise it has no finding.  So a model written
\* entirely in upper-case letters is seen (its accessor starts with a
\* lower-case letter), and a model whose accessor is a block-list entry
\* (Transaction, Count, Connect, Find, Get, Aggregate) or holds an
\* underscore is not.
C27_BlockListedModelsUnseen ==
    AccessPassDone =>
        \A i \in DOMAIN Nodes :
            IsForeignModelAccess(Nodes[i]) =>
               LET m == Nodes[i].property.name
               IN  ReportsAt(i) =
                      IF /\ m \notin Range(commonMethods) \cup Range(commonProps)
                         /\ Len(m) > 1
                         /\ \A k \in DOMAIN m : IsLetter(m[k]) \/ (k > 1 /\ IsDigit(m[k]))
                         /\ \E k \in DOMAIN m : IsLowerLetter(m[k])
                      THEN <<CrossDomainFinding(i, DeclarationCased(m))>>
                      ELSE <<>>

\* C27 witness: the model Count is indexed in the domain org, the access
\* prisma.count in a file of module auth has been visited, and there is no
\* finding.
C27_Witness ==
    /\ AccessPassDone
    /\ currentModule = Some(Text.Auth)
    /\ Text.ModelNames[2] \in DOMAIN modelToDomain
    /\ modelToDomain[Text.ModelNames[2]] = Text.Org
    /\ ast.body = <<Stmt(Member(Id(StrPrisma), Id(<<"c","o","u","n","t">>)))>>
    /\ reports = <<>>

\* the file passes the gate and its absolute schemaDir is missing, cannot be
\* listed, or holds a file that cannot be read or parsed
SchemaDirUnusable ==
    /\ rule = "no-cross-domain-prisma-access"
    /\ ~GateClosed
    /\ options.schemaDir # <<>> /\ options.schemaDir[1] = Slash
    /\ \/ options.schemaDir \notin DOMAIN disk.schemaDirs
       \/ ~AllFilesParse(disk.schemaDirs[options.schemaDir])

\* C18 as stated: when the schema directory is unusable, the pass reports
\* exactly one finding, the configError on the Program node, and no
\* modelNotFound or crossDomainAccess finding.
C18_Original ==
    (pc = "done" /\ SchemaDirUnusable) => reports = <<Report(1, "configError", <<>>)>>

\* C18, what the code does: when the schema directory is unusable the rule
\* registers its MemberExpression listener with the index built from the
\* files that precede the failure (none for a missing directory); no
\* configError is reported, and every named access has the findings it is
\* due against that index: modelNotFound for a model that is not in it.
C18_ChecksAgainstPartialIndex ==
    SchemaDirUnusable =>
        /\ \A k \in DOMAIN reports : reports[k].messageId # "configError"
        /\ pc # "create" =>
              /\ listeners = {"MemberExpression"}
              /\ DOMAIN modelToDomain =
                    IF options.schemaDir \notin DOMAIN disk.schemaDirs
                       \/ disk.schemaDirs[options.schemaDir].globThrows
                    THEN {}
                    ELSE DeclaredModels(
                             BeforeFailure(disk.schemaDirs[options.schemaDir].schemaFiles))
        /\ pc = "done" =>
              \A i \in DOMAIN Nodes :
                  IsNamedAccess(Nodes[i]) =>
                      /\ Len(ReportsAt(i)) = FindingsDue(Nodes[i])
                      /\ DeclarationCased(Nodes[i].property.name) \notin DOMAIN modelToDomain =>
                            ReportsAt(i)[1].messageId = "modelNotFound"

\* C18 witness: the schema directory does not exist; the pass over a file
\* with an access to organization is over and its only finding is
\* modelNotFound for Organization.
C18_Witness ==
    /\ pc = "done"
    /\ SchemaDirUnusable
    /\ options.schemaDir \notin DOMAIN disk.schemaDirs
    /\ ast.body = <<Stmt(ThisPrismaCall(Text.OrganizationLc))>>
    /\ Len(reports) = 1
    /\ reports[1].messageId = "modelNotFound"
    /\ reports[1].data = [modelName |-> Text.Organization]

----------------------------------------------------------------------------
(* Properties of the legacy rule, checked under SpecLegacy *)

\* the findings the current listener reports for node i of the program, with
\* the module and the index the legacy pass works with
CurrentFindingsAt(ns, i) ==
    IF ns[i].type = "MemberExpression"
    THEN memberExpressionReports(ns[i], i, currentModule[1], modelToDomain)
    ELSE <<>>

\* a named client access whose model the index places in the domain shared,
\* in a file of a module other than shared
IsSharedAccessFromElsewhere(n) ==
    /\ IsNamedAccess(n)
    /\ DeclarationCased(n.property.name) \in DOMAIN modelToDomain
    /\ modelToDomain[DeclarationCased(n.property.name)] = StrShared
    /\ currentModule[1] # StrShared

\* C29: when a pass of the legacy rule is over, with allowSharedModels
\* false every node has exactly the findings the current listener reports
\* for it with the same module and the same index; with allowSharedModels
\* true the same holds for every node but the accesses to a model of the
\* domain shared from a module other than shared, for which the legacy rule
\* has no finding and the current listener reports crossDomainAccess.
C29_LegacyDiffersOnSharedOnly ==
    AccessPassDone =>
        \A ns \in {Nodes} : \A i \in DOMAIN ns :
            IF options.allowSharedModels /\ IsSharedAccessFromElsewhere(ns[i])
            THEN /\ ReportsAt(i) = <<>>
                 /\ CurrentFindingsAt(ns, i) =
                       <<CrossDomainFinding(i, DeclarationCased(ns[i].property.name))>>
            ELSE ReportsAt(i) = CurrentFindingsAt(ns, i)

\* C29 witness: allowSharedModels is true; the pass over a file of module
\* auth that accesses setting (domain shared) and then organization is over,
\* and its only finding is the crossDomainAccess for Organization.
C29_Witness ==
    /\ AccessPassDone
    /\ options.allowSharedModels
    /\ currentModule = Some(Text.Auth)
    /\ ast.body = <<Stmt(ThisPrismaCall(Text.SettingLc)),
                    Stmt(ThisPrismaCall(Text.OrganizationLc))>>
    /\ Len(reports) = 1
    /\ reports[1].messageId = "crossDomainAccess"
    /\ reports[1].data.modelName = Text.Organization
    /\ \E i \in DOMAIN Nodes : IsSharedAccessFromElsewhere(Nodes[i])

----------------------------------------------------------------------------
(* rules/no-cross-schema-slonik-access *)

StrSql == <<"s","q","l">>
StrSelect == <<"s","e","l","e","c","t">>
StrPlaceholder == <<" ","?"," ">>
LineTerminators == {"\n", "\r"}

KwFrom == <<"F","R","O","M">>
KwJoin == <<"J","O","I","N">>
KwInsert == <<"I","N","S","E","R","T">>
KwInto == <<"I","N","T","O">>
KwUpdate == <<"U","P","D","A","T","E">>
KwDelete == <<"D","E","L","E","T","E">>

\* the patterns with JOIN before FROM
patterns_JoinFirst ==
    << <<KwJoin>>, <<KwFrom>>, <<KwInsert, KwInto>>, <<KwUpdate>>, <<KwDelete, KwFrom>> >>

\* the five patterns: each is its keywords; every keyword is followed by \s+
\* and the last by (?:(\w+)\.)?(\w+); all have the flags g and i
patterns ==
    << <<KwFrom>>, <<KwJoin>>, <<KwInsert, KwInto>>, <<KwUpdate>>, <<KwDelete, KwFrom>> >>

\* sql.replace(/--.*$/gm, '')
RECURSIVE removeLineComments(_)
removeLineComments(s) ==
    IF s = <<>> THEN <<>>
    ELSE IF OccursAt(s, <<"-","-">>, 0)
    THEN LET ends == {e \in 2..Len(s) : e = Len(s) \/ s[e + 1] \in LineTerminators}
             end == CHOOSE e \in ends : \A f \in ends : e <= f
         IN  removeLineComments(substringFrom(s, end))
    ELSE <<Head(s)>> \o removeLineComments(Tail(s))

\* sql.replace(/\/\*[\s\S]*?\*\//g, '')
RECURSIVE removeBlockComments(_)
removeBlockComments(s) ==
    IF s = <<>> THEN <<>>
    ELSE LET closes == {c \in 2..Len(s) : OccursAt(s, <<"*","/">>, c)}
             close == CHOOSE c \in closes : \A d \in closes : c <= d
         IN  IF OccursAt(s, <<"/","*">>, 0) /\ closes # {}
             THEN removeBlockComments(substringFrom(s, close + 2))
             ELSE <<Head(s)>> \o removeBlockComments(Tail(s))

\* the end of the longest run of \s (class "s") or \w (class "w") characters
\* that starts at the 0-based position p of s
RECURSIVE RunEnd(_, _, _)
RunEnd(s, p, class) ==
    IF p < Len(s) /\ (IF class = "s" THEN IsSpaceChar(s[p + 1]) ELSE IsWordChar(s[p + 1]))
    THEN RunEnd(s, p + 1, class)
    ELSE p

\* sql.replace(/\s+/g, ' ')
RECURSIVE normalizeWhitespace(_)
normalizeWhitespace(s) ==
    IF s = <<>> THEN <<>>
    ELSE IF IsSpaceChar(Head(s))
    THEN <<" ">> \o normalizeWhitespace(substringFrom(s, RunEnd(s, 0, "s")))
    ELSE <<Head(s)>> \o normalizeWhitespace(Tail(s))

\* sql.trim()
trim(s) ==
    LET inner == {i \in DOMAIN s : ~IsSpaceChar(s[i])}
        first == CHOOSE i \in inner : \A j \in inner : i <= j
        last == CHOOSE i \in inner : \A j \in inner : j <= i
    IN  IF inner = {} THEN <<>> ELSE substring(s, first - 1, last)

\* the one element of a singleton set
The(S) == CHOOSE x \in S : TRUE

\* cleanSql: each replace is applied to the value the one before it returned
cleanSqlOf(sql) ==
    The({trim(spaced) :
            spaced \in {normalizeWhitespace(uncommented) :
                uncommented \in {removeBlockComments(unlined) :
                    unlined \in {removeLineComments(sql)}}}})

\* kw matches s at position p, ignoring case
KeywordAt(s, kw, p) ==
    /\ p + Len(kw) <= Len(s)
    /\ \A k \in 1..Len(kw) : UpperOfChar(s[p + k]) = kw[k]

\* the keywords of a pattern, each followed by \s+, matched from position p:
\* the position after the last \s+, or -1
RECURSIVE matchKeywords(_, _, _)
matchKeywords(s, kws, p) ==
    IF kws = <<>> THEN p
    ELSE IF ~KeywordAt(s, Head(kws), p) THEN -1
    ELSE LET q == p + Len(Head(kws))
             r == RunEnd(s, q, "s")
         IN  IF r = q THEN -1 ELSE matchKeywords(s, Tail(kws), r)

\* an attempt to match a pattern at position p exactly: Null, or the groups
\* and the end of the match.  (\w+) is greedy and the optional group
\* (?:(\w+)\.)? is given up when no \w follows the dot.
matchAt(s, kws, p) ==
    LET q == matchKeywords(s, kws, p)
        w1 == RunEnd(s, q, "w")
        w2 == RunEnd(s, w1 + 1, "w")
    IN  IF q = -1 THEN Null
        ELSE IF w1 = q THEN Null
        ELSE IF w1 < Len(s) /\ s[w1 + 1] = "." /\ w2 > w1 + 1
        THEN Some([schema |-> Some(substring(s, q, w1)),
                   table |-> substring(s, w1 + 1, w2),
                   lastIndex |-> w2])
        ELSE Some([schema |-> Null, table |-> substring(s, q, w1), lastIndex |-> w1])

\* pattern.exec(cleanSql) with the pattern's lastIndex at from: the leftmost match
RECURSIVE exec(_, _, _)
exec(s, kws, from) ==
    IF from >= Len(s) THEN Null
    ELSE IF matchAt(s, kws, from) # Null THEN matchAt(s, kws, from)
    ELSE exec(s, kws, from + 1)

\* the body of the while loop for one pattern: the names pushed
RECURSIVE namesOfPattern(_, _, _)
namesOfPattern(s, kws, from) ==
    LET match == exec(s, kws, from)
        schema == match[1].schema
        table == match[1].table
        pushed == IF toLowerCase(table) # StrSelect
                  THEN IF schema # Null
                       THEN <<schema[1] \o <<".">> \o table>>
                       ELSE <<table>>
                  ELSE <<>>
    IN  IF match = Null THEN <<>>
        ELSE pushed \o namesOfPattern(s, kws, match[1].lastIndex)

\* [...new Set(tableNames)]: the first occurrence of every name, in order
uniqueInOrder(names) ==
    LET RECURSIVE from(_)
        from(i) ==
            IF i > Len(names) THEN <<>>
            ELSE (IF \E j \in 1..(i - 1) : names[j] = names[i] THEN <<>> ELSE <<names[i]>>)
                    \o from(i + 1)
    IN  from(1)

\* patterns.forEach: the names pushed, pattern after pattern
allNamesPushed(cleanSql) ==
    LET RECURSIVE each(_)
        each(ps) ==
            IF ps = <<>> THEN <<>>
            ELSE namesOfPattern(cleanSql, Head(ps), 0) \o each(Tail(ps))
    IN  each(patterns)

\* extractTableNames without the removal of duplicates
extractTableNames_NoSet(sql) ==
    The({allNamesPushed(cleanSql) : cleanSql \in {cleanSqlOf(sql)}})

\* extractTableNames(sql)
extractTableNames(sql) ==
    The({uniqueInOrder(tableNames) :
            tableNames \in {allNamesPushed(cleanSql) : cleanSql \in {cleanSqlOf(sql)}}})

\* isTableAccessViolation with unqualified names let through
isTableAccessViolation_UnqualifiedAllowed(tableName, module) ==
    IF includes(tableName, <<".">>)
    THEN LET parts == split(tableName, ".")
             schema == parts[1]
             table == parts[2]
         IN  IF schema # <<>> /\ schema # module
             THEN [isViolation |-> TRUE, schema |-> Some(schema), table |-> Some(table),
                   reason |-> "crossSchema"]
             ELSE [isViolation |-> FALSE, schema |-> Null, table |-> Null, reason |-> "none"]
    ELSE [isViolation |-> FALSE, schema |-> Null, table |-> Null, reason |-> "none"]

\* isTableAccessViolation(tableName, currentModule); split('.', 2) keeps the
\* first two parts
isTableAccessViolation(tableName, module) ==
    IF includes(tableName, <<".">>)
    THEN LET parts == split(tableName, ".")
             schema == parts[1]
             table == parts[2]
         IN  IF schema # <<>> /\ schema # module
             THEN [isViolation |-> TRUE, schema |-> Some(schema), table |-> Some(table),
                   reason |-> "crossSchema"]
             ELSE [isViolation |-> FALSE, schema |-> Null, table |-> Null, reason |-> "none"]
    ELSE [isViolation |-> TRUE, schema |-> Null, table |-> Some(tableName),
          reason |-> "unqualified"]

\* isSlonikSqlCall recognizing the bare identifier only
isSlonikSqlCall_IdentifierOnly(node) ==
    node.tag.type = "Identifier" /\ node.tag.name = StrSql

\* isSlonikSqlCall(node)
isSlonikSqlCall(node) ==
    IF node.tag.type = "Identifier" /\ node.tag.name = StrSql
    THEN TRUE
    ELSE IF /\ node.tag.type = "MemberExpression"
            /\ node.tag.property.type = "Identifier"
            /\ node.tag.property.name = StrSql
    THEN TRUE
    ELSE FALSE

\* extractSqlFromTemplate(node)
extractSqlFromTemplate(node) ==
    LET quasi == node.quasi
        RECURSIVE each(_)
        each(index) ==
            IF index > Len(quasi.quasis) THEN <<>>
            ELSE quasi.quasis[index].value.raw
                    \o (IF index - 1 < Len(quasi.expressions) THEN StrPlaceholder ELSE <<>>)
                    \o each(index + 1)
    IN  each(1)

\* tableNames.forEach of the listener: the findings for one table name
tableReports(tableName, at, module) ==
    LET violation == isTableAccessViolation(tableName, module)
    IN  IF ~violation.isViolation THEN <<>>
        ELSE IF /\ violation.reason = "crossSchema"
                /\ ~isFalsy(violation.schema)
                /\ ~isFalsy(violation.table)
        THEN <<Report(at, "crossSchemaAccess",
                      [currentModule |-> module,
                       schema |-> violation.schema[1],
                       table |-> violation.table[1]])>>
        ELSE IF violation.reason = "unqualified" /\ ~isFalsy(violation.table)
        THEN <<Report(at, "unqualifiedTable",
                      [currentModule |-> module, table |-> violation.table[1]])>>
        ELSE <<>>

\* the body of the TaggedTemplateExpression listener
taggedTemplateReports(node, at, module) ==
    LET RECURSIVE each(_, _)
        each(tableNames, i) ==
            IF i > Len(tableNames) THEN <<>>
            ELSE tableReports(tableNames[i], at, module) \o each(tableNames, i + 1)
    IN  IF ~isSlonikSqlCall(node) THEN <<>>
        ELSE The({each(tableNames, 1) :
                    tableNames \in {extractTableNames(sqlString) :
                        sqlString \in {extractSqlFromTemplate(node)}}})

\* create(context, [options]) of no-cross-schema-slonik-access
CreateSlonik ==
    /\ pc = "create"
    /\ rule = "no-cross-schema-slonik-access"
    /\ pc' = "visit"
    /\ IF isOutsideModules(filename, options.modulePath)
       THEN /\ listeners' = {}
            /\ UNCHANGED currentModule
       ELSE LET module == extractModuleFromPath(filename, options.modulePath)
            IN  IF module = Null
                THEN /\ listeners' = {}
                     /\ UNCHANGED currentModule
                ELSE /\ currentModule' = module
                     /\ listeners' = {"TaggedTemplateExpression"}
    /\ UNCHANGED <<call, ret, rule, filename, options, disk, ast, todo, visited,
                   modelToDomain, reportedConfigError, reports>>

\* the TaggedTemplateExpression listener
TaggedTemplateExpressionSlonik ==
    /\ pc = "visit"
    /\ rule = "no-cross-schema-slonik-access"
    /\ NextNode.type = "TaggedTemplateExpression"
    /\ "TaggedTemplateExpression" \in listeners
    /\ reports' = reports \o taggedTemplateReports(NextNode, visited + 1, currentModule[1])
    /\ Advance
    /\ UNCHANGED <<call, ret, rule, filename, options, disk, ast, listeners,
                   currentModule, modelToDomain, reportedConfigError>>

----------------------------------------------------------------------------
(* Files and programs the SQL rule is run on *)

Space == <<" ">>

Qualified(schema, table) == schema \o StrDot \o table

\* clauses of a query; each names the table reference it holds
Clause(text, ref) == [text |-> text \o Space, ref |-> ref]

SqlClauses ==
    { Clause(KwFrom \o Space \o Qualified(Text.Auth, Text.Users), Qualified(Text.Auth, Text.Users)),
      Clause(toLowerCase(KwJoin) \o Space \o Qualified(Text.Auth, Text.Users),
             Qualified(Text.Auth, Text.Users)),
      Clause(KwJoin \o Space \o Qualified(Text.Org, Text.Users), Qualified(Text.Org, Text.Users)),
      Clause(KwDelete \o Space \o KwFrom \o Space \o Qualified(Text.Org, Text.Teams),
             Qualified(Text.Org, Text.Teams)),
      Clause(KwInsert \o Space \o KwInto \o Space \o Qualified(StrShared, Text.Logs),
             Qualified(StrShared, Text.Logs)),
      Clause(KwUpdate \o Space \o Text.Users, Text.Users) }

MaxClauses == 3

\* the programs whose queries have up to maxClauses clauses
SqlProgramsOf(maxClauses) ==
    LET Queries == {Flatten([i \in DOMAIN cs |-> cs[i].text]) : cs \in SeqsOf(SqlClauses, 1, maxClauses)}
        SqlTag == Id(StrSql)
        ThisSqlTag == Member(ThisExpr, Id(StrSql))
        \* sql`SELECT * FROM auth.users WHERE id = ${id}` and the like: a clause, an
        \* interpolated value, a clause
        InterpolatedTemplates ==
            {Tagged(Member(Id(Text.Db), Id(StrSql)), <<c.text \o Text.Id \o <<" ","=">>, Space \o d.text>>,
                    <<Id(Text.Id)>>) : c \in SqlClauses, d \in SqlClauses}
        \* templates whose tag is not the SQL builder, and template literals without a tag
        \* gql, console.log, sql.unsafe, db['sql']
        ForeignTags ==
            { Id(Text.Gql),
              Member(Id(Text.Console), Id(Text.Log)),
              Member(Id(StrSql), Id(Text.Unsafe)),
              Computed(Id(Text.Db), Lit(StrSql)) }
        ForeignTemplates ==
            {Tagged(t, <<c.text>>, <<>>) : t \in ForeignTags, c \in SqlClauses}
                \cup {TemplateLiteral(<<c.text>>, <<>>) : c \in SqlClauses}
        \* this.db.sql
        NestedTemplates ==
            {Tagged(Member(Member(ThisExpr, Id(Text.Db)), Id(StrSql)), <<c.text>>, <<>>) :
                c \in SqlClauses}
        \* a column whose name ends in a keyword, followed by another word,
        \* alone or before a clause
        ColumnTemplates ==
            {Tagged(SqlTag, <<col \o Space \o Text.X \o Space \o c>>, <<>>) :
                col \in {Text.ValidFrom, Text.LastUpdate},
                c \in {<<>>} \cup {d.text : d \in SqlClauses}}
        \* the word select, in several casings, where a table is expected
        SelectTemplates ==
            {Tagged(SqlTag, <<t \o Space>>, <<>>) :
                t \in { KwFrom \o Space \o StrSelect,
                        KwFrom \o Space \o <<"S","e","L","e","C","t">>,
                        KwJoin \o Space \o Qualified(Text.Auth, toUpperCase(StrSelect)),
                        KwUpdate \o Space \o toUpperCase(StrSelect) \o Space
                            \o KwFrom \o Space \o Qualified(Text.Auth, Text.Users) }}
        \* an interpolated expression where a table is expected: FROM ${x},
        \* FROM ${x}.users and FROM auth.${x}
        TablePositionTemplates ==
            {Tagged(SqlTag, <<kw \o Space, Space>>, <<Id(Text.X)>>) : kw \in {KwFrom, KwUpdate}}
                \cup {Tagged(SqlTag, <<kw \o Space, StrDot \o Text.Users \o Space>>, <<Id(Text.X)>>) :
                        kw \in {KwFrom, KwUpdate}}
                \cup {Tagged(SqlTag, <<kw \o Space \o schema \o StrDot, Space>>, <<Id(Text.X)>>) :
                        kw \in {KwFrom, KwUpdate}, schema \in {Text.Auth, Text.Org}}
        \* a clause c in a comment and a clause d outside: a line comment
        \* before and behind d, a block comment on one line and over several
        \* lines, and a block comment with -- in it that ends on the same line
        \* or on a later one
        CommentTemplates ==
            LET LineComment == <<"-","-"," ">>
                Open == <<"/","*"," ">>
                Close == <<"*","/"," ">>
                NewLine == <<"\n">>
                Commented == {c \in SqlClauses :
                                c.ref \in {Qualified(Text.Org, Text.Users), Qualified(StrShared, Text.Logs)}}
                Outside == {d \in SqlClauses :
                                d.ref \in {Qualified(Text.Org, Text.Teams), Text.Users}}
            IN  UNION {{ Tagged(SqlTag, <<LineComment \o c.text \o NewLine \o d.text>>, <<>>),
                         Tagged(SqlTag, <<d.text \o LineComment \o c.text>>, <<>>),
                         Tagged(SqlTag, <<Open \o c.text \o Close \o d.text>>, <<>>),
                         Tagged(SqlTag, <<Open \o NewLine \o c.text \o NewLine \o Close \o d.text>>, <<>>),
                         Tagged(SqlTag, <<Open \o LineComment \o c.text \o NewLine \o Close \o d.text>>,
                                <<>>),
                         Tagged(SqlTag, <<Open \o LineComment \o Close \o d.text>>, <<>>) } :
                            c \in Commented, d \in Outside}
        SqlTemplates ==
            {Tagged(SqlTag, <<q>>, <<>>) : q \in Queries}
                \cup InterpolatedTemplates \cup ForeignTemplates \cup NestedTemplates
                \cup ColumnTemplates \cup SelectTemplates \cup TablePositionTemplates
                \cup CommentTemplates
        \* a second template of the same file
        SecondTemplates ==
            {Tagged(ThisSqlTag, <<c.text>>, <<>>) :
                c \in {d \in SqlClauses : d.ref \in {Qualified(Text.Org, Text.Teams), Text.Users}}}
        ClauseOf(ref) == CHOOSE c \in SqlClauses : c.ref = ref
        \* the first template of a file with two: one clause, or three clauses
        \* with three tables of other schemas
        FirstTemplates ==
            {Tagged(SqlTag, <<c.text>>, <<>>) : c \in SqlClauses}
                \cup {Tagged(SqlTag,
                             <<ClauseOf(Qualified(Text.Org, Text.Teams)).text
                                 \o ClauseOf(Qualified(StrShared, Text.Logs)).text
                                 \o ClauseOf(Qualified(Text.Org, Text.Users)).text>>,
                             <<>>)}
    IN  {Program(<<Stmt(t)>>, Null) : t \in SqlTemplates}
            \cup {Program(<<Stmt(t), Stmt(u)>>, Null) : t \in FirstTemplates, u \in SecondTemplates}

SqlPrograms == SqlProgramsOf(MaxClauses)

\* the programs of the files the rule does not check
ShortSqlPrograms == SqlProgramsOf(2)

InitSlonik ==
    LET Run(f, m, ps) == [filename |-> f, modulePath |-> m, programs |-> ps]
        \* files of two modules, a file outside the modules, a file that is
        \* not TypeScript, a modulePath that the file name ends with, and a
        \* file name written with backslashes
        SqlRuns ==
            { Run(FileInModule(Text.Auth, Text.FileTs), Text.ModulesMarker, SqlPrograms),
              Run(FileInModule(Text.Org, Text.FileTs \o <<"x">>), Text.ModulesMarker, SqlPrograms),
              Run(Text.App \o <<Slash>> \o Text.Lib \o <<Slash>> \o Text.FileTs,
                  Text.ModulesMarker, ShortSqlPrograms),
              Run(FileInModule(Text.Auth, <<"x",".","j","s">>), Text.ModulesMarker,
                  ShortSqlPrograms),
              Run(FileInModule(Text.Auth, Text.FileTs), <<Slash>> \o Text.FileTs,
                  ShortSqlPrograms),
              Run(replaceChar(FileInModule(Text.Auth, Text.FileTs), Slash, Backslash),
                  Text.ModulesMarker, ShortSqlPrograms) }
    IN  /\ pc = "create"
        /\ IdleCaller
        /\ rule = "no-cross-schema-slonik-access"
        /\ \E r \in SqlRuns :
              /\ filename = r.filename
              /\ options = [modulePath |-> r.modulePath, schemaDir |-> <<>>]
              /\ ast \in r.programs
        /\ disk = NoDisk
        /\ todo = Preorder(ast)
        /\ visited = 0
        /\ listeners = {}
        /\ currentModule = Null
        /\ modelToDomain = EmptyMapping
        /\ reportedConfigError = FALSE
        /\ reports = <<>>

NextSlonik ==
    \/ CreateSlonik
    \/ HostSkip
    \/ TaggedTemplateExpressionSlonik

SpecSlonik == InitSlonik /\ [][NextSlonik]_vars

----------------------------------------------------------------------------
(* Properties of the SQL rule, checked under SpecSlonik *)

\* the pass of the SQL rule is over and its listener ran
SqlPassDone ==
    /\ rule = "no-cross-schema-slonik-access"
    /\ pc = "done"
    /\ "TaggedTemplateExpression" \in listeners

\* a tagged template the rule analyses
IsSqlTemplate(n) == n.type = "TaggedTemplateExpression" /\ isSlonikSqlCall(n)

IsQualifiedRef(r) == \E k \in DOMAIN r : r[k] = "."
DotOf(r) == CHOOSE k \in DOMAIN r : r[k] = "." /\ \A j \in 1..(k - 1) : r[j] # "."
SchemaOfRef(r) == [k \in 1..(DotOf(r) - 1) |-> r[k]]
TableOfRef(r) == [k \in 1..(Len(r) - DotOf(r)) |-> r[DotOf(r) + k]]

CrossSchemaFinding(i, r) ==
    Report(i, "crossSchemaAccess",
           [currentModule |-> currentModule[1],
            schema |-> SchemaOfRef(r),
            table |-> TableOfRef(r)])

UnqualifiedFinding(i, r) ==
    Report(i, "unqualifiedTable", [currentModule |-> currentModule[1], table |-> r])

CountOf(rep) == Len(SelectSeq(reports, LAMBDA x : x = rep))

\* the reference r is due a finding in the current module
NeedsFinding(r) == ~IsQualifiedRef(r) \/ SchemaOfRef(r) # currentModule[1]

FindingFor(i, r) ==
    IF IsQualifiedRef(r) THEN CrossSchemaFinding(i, r) ELSE UnqualifiedFinding(i, r)

\* C2: when the pass is over, for every analysed template and every table
\* reference extracted from it: a qualified reference whose schema differs
\* from the current module has exactly one crossSchemaAccess finding
\* (currentModule, schema, table); a qualified reference whose schema equals
\* the current module has none; an unqualified reference has exactly one
\* unqualifiedTable finding (currentModule, table); and the template has no
\* other finding.
C2_Classification ==
    SqlPassDone =>
        \A i \in DOMAIN Nodes :
            IsSqlTemplate(Nodes[i]) =>
               LET refs == Range(extractTableNames(extractSqlFromTemplate(Nodes[i])))
               IN  /\ \A r \in refs :
                          IF IsQualifiedRef(r)
                          THEN CountOf(CrossSchemaFinding(i, r)) =
                                  IF SchemaOfRef(r) # currentModule[1] THEN 1 ELSE 0
                          ELSE CountOf(UnqualifiedFinding(i, r)) = 1
                   /\ \A k \in DOMAIN ReportsAt(i) :
                          \E r \in refs : NeedsFinding(r) /\ ReportsAt(i)[k] = FindingFor(i, r)

\* C2 witness: in a file of module auth one template referring to auth.users,
\* to org.users and to the bare table users has been analysed: org.users was
\* reported as crossSchemaAccess, users as unqualifiedTable, auth.users not.
C2_Witness ==
    /\ SqlPassDone
    /\ currentModule = Some(Text.Auth)
    /\ Len(ast.body) = 1
    /\ IsSqlTemplate(Nodes[3])
    /\ Range(extractTableNames(extractSqlFromTemplate(Nodes[3]))) =
          {Qualified(Text.Auth, Text.Users), Qualified(Text.Org, Text.Users), Text.Users}
    /\ Len(reports) = 2
    /\ CountOf(CrossSchemaFinding(3, Qualified(Text.Org, Text.Users))) = 1
    /\ CountOf(UnqualifiedFinding(3, Text.Users)) = 1

\* the table references written in the literal text of a template: those of
\* the clauses that occur in it
RefsWritten(n) ==
    {c.ref : c \in {d \in SqlClauses :
        \E k \in DOMAIN n.quasi.quasis : includes(n.quasi.quasis[k].value.raw, d.text)}}

\* an interpolated expression of the template stands where a table is
\* expected: behind a clause keyword, before a dot or behind a dot
InterpolatesTable(n) ==
    \E k \in DOMAIN n.quasi.expressions :
        LET before == n.quasi.quasis[k].value.raw
            after == n.quasi.quasis[k + 1].value.raw
        IN  \/ \E kw \in {KwFrom, KwJoin, KwInto, KwUpdate} :
                  endsWith(toUpperCase(before), kw \o Space)
            \/ endsWith(before, StrDot)
            \/ after # <<>> /\ after[1] = "."

\* the text holds no comment
NoComment(text) == ~Contains(text, <<"-","-">>) /\ ~Contains(text, <<"/","*">>)

\* the keyword kw is written at position a of the text, in any casing
LettersAt(text, kw, a) ==
    /\ a + Len(kw) <= Len(text)
    /\ \A k \in DOMAIN kw : UpperOfChar(text[a + k]) = kw[k]

\* the keyword written at position a stands as a whole word
IsWordAt(text, kw, a) ==
    /\ LettersAt(text, kw, a)
    /\ a = 0 \/ ~IsWordChar(text[a])
    /\ a + Len(kw) = Len(text) \/ ~IsWordChar(text[a + Len(kw) + 1])

\* every keyword written in the text stands as a whole word
KeywordsAreWords(text) ==
    \A kw \in {KwFrom, KwJoin, KwInsert, KwInto, KwUpdate, KwDelete} :
        \A a \in 0..Len(text) : LettersAt(text, kw, a) => IsWordAt(text, kw, a)

\* C8: when the pass is over, the findings of one analysed template without
\* comments whose keywords stand as whole words and whose interpolated
\* expressions stand for values are pairwise different, there is one for each distinct reference written in
\* the template that is unqualified or of another schema, however often the
\* reference is written and however many patterns match it, and a template
\* with three distinct qualified references of other schemas has exactly
\* three crossSchemaAccess findings; this holds for each template of the file
\* on its own.
C8_OneFindingPerDistinctTable ==
    SqlPassDone =>
        \A i \in DOMAIN Nodes :
            (/\ IsSqlTemplate(Nodes[i])
             /\ KeywordsAreWords(extractSqlFromTemplate(Nodes[i]))
             /\ NoComment(extractSqlFromTemplate(Nodes[i]))
             /\ ~InterpolatesTable(Nodes[i])) =>
               LET due == {r \in RefsWritten(Nodes[i]) : NeedsFinding(r)}
                   found == ReportsAt(i)
               IN  /\ \A a, b \in DOMAIN found : a # b => found[a] # found[b]
                   /\ \A r \in due : CountOf(FindingFor(i, r)) = 1
                   /\ Len(found) = Cardinality(due)
                   /\ Cardinality({r \in due : IsQualifiedRef(r)}) = 3 =>
                         Len(SelectSeq(found, LAMBDA x : x.messageId = "crossSchemaAccess")) = 3

\* C8 witness: in a file of module auth a template with DELETE FROM
\* org.teams, INSERT INTO shared.logs and JOIN org.users got exactly three
\* crossSchemaAccess findings, and a second template with DELETE FROM
\* org.teams got its own finding for org.teams.
C8_Witness ==
    /\ SqlPassDone
    /\ currentModule = Some(Text.Auth)
    /\ Len(ast.body) = 2
    /\ IsSqlTemplate(ast.body[1].expression)
    /\ IsSqlTemplate(ast.body[2].expression)
    /\ RefsWritten(ast.body[1].expression) =
          {Qualified(Text.Org, Text.Teams), Qualified(StrShared, Text.Logs), Qualified(Text.Org, Text.Users)}
    /\ RefsWritten(ast.body[2].expression) = {Qualified(Text.Org, Text.Teams)}
    /\ Len(reports) = 4
    /\ \A k \in 1..3 : reports[k].at = 3 /\ reports[k].messageId = "crossSchemaAccess"
    /\ reports[4].at > 3
    /\ reports[4].data = [currentModule |-> Text.Auth, schema |-> Text.Org, table |-> Text.Teams]

\* the reference a finding is about
RefOfFinding(rep) ==
    IF rep.messageId = "crossSchemaAccess"
    THEN Qualified(rep.data.schema, rep.data.table)
    ELSE rep.data.table

\* the places of the query text where a clause with the reference r starts
PlacesOf(text, r) ==
    {a \in 0..Len(text) : \E d \in SqlClauses : d.ref = r /\ OccursAt(text, d.text, a)}

\* where the reference r first occurs in the query text
FirstInText(text, r) == CHOOSE a \in PlacesOf(text, r) : \A b \in PlacesOf(text, r) : a <= b

\* the keywords of the five patterns as they are written in a clause
KeywordTexts ==
    <<KwFrom, KwJoin, KwInsert \o Space \o KwInto, KwUpdate, KwDelete \o Space \o KwFrom>>

\* the rank at which the reference r is first pushed: the patterns are run
\* one after the other over the whole text, so a reference found by an
\* earlier pattern comes first, and among the references of one pattern the
\* one that stands further left
FirstPushed(text, r) ==
    LET ranks == {p * (Len(text) + 1) + a : <<p, a>> \in
                    {pa \in (1..5) \X (0..Len(text)) :
                        \E d \in SqlClauses :
                            /\ d.ref = r
                            /\ OccursAt(text, d.text, pa[2])
                            /\ Contains(toUpperCase(d.text), KeywordTexts[pa[1]])}}
    IN  CHOOSE x \in ranks : \A y \in ranks : x <= y

\* C19 as stated: the findings of one template are in the order in which
\* their references first occur in the query text, read left to right.
C19_Original ==
    SqlPassDone =>
        \A i \in DOMAIN Nodes :
            (IsSqlTemplate(Nodes[i]) /\ KeywordsAreWords(extractSqlFromTemplate(Nodes[i]))) =>
               LET text == extractSqlFromTemplate(Nodes[i])
                   found == ReportsAt(i)
               IN  \A k, l \in DOMAIN found :
                      k < l => FirstInText(text, RefOfFinding(found[k]))
                                  < FirstInText(text, RefOfFinding(found[l]))

\* C19: the findings of one template are in the order in which their
\* references are first pushed by extractTableNames: references matched by
\* the FROM pattern (which also matches inside DELETE FROM) come first, then
\* those of JOIN, INSERT INTO, UPDATE and DELETE FROM, and the references of
\* one pattern are in the order of the text; a reference has one finding
\* however often it is matched.
C19_PatternOrder ==
    SqlPassDone =>
        \A i \in DOMAIN Nodes :
            (IsSqlTemplate(Nodes[i]) /\ KeywordsAreWords(extractSqlFromTemplate(Nodes[i]))) =>
               LET text == extractSqlFromTemplate(Nodes[i])
                   found == ReportsAt(i)
               IN  \A k, l \in DOMAIN found :
                      k < l => FirstPushed(text, RefOfFinding(found[k]))
                                  < FirstPushed(text, RefOfFinding(found[l]))

\* C19 witness: in a file of module auth the template INSERT INTO shared.logs
\* DELETE FROM org.teams has been analysed and the finding for org.teams
\* precedes the finding for shared.logs.
C19_Witness ==
    /\ SqlPassDone
    /\ currentModule = Some(Text.Auth)
    /\ Len(ast.body) = 1
    /\ IsSqlTemplate(Nodes[3])
    /\ extractSqlFromTemplate(Nodes[3]) =
          KwInsert \o Space \o KwInto \o Space \o Qualified(StrShared, Text.Logs) \o Space
            \o KwDelete \o Space \o KwFrom \o Space \o Qualified(Text.Org, Text.Teams) \o Space
    /\ Len(reports) = 2
    /\ RefOfFinding(reports[1]) = Qualified(Text.Org, Text.Teams)
    /\ RefOfFinding(reports[2]) = Qualified(StrShared, Text.Logs)

\* the reference r is written in the text after the clause keywords that
\* start at position a and one space, and no word character follows it, nor
\* a dot with a word character behind it
RefAfterKeyword(text, a, r) ==
    \E p \in DOMAIN KeywordTexts :
        LET b == a + Len(KeywordTexts[p]) + 1
        IN  /\ LettersAt(text, KeywordTexts[p], a)
            /\ b + Len(r) <= Len(text)
            /\ text[b] = " "
            /\ \A k \in DOMAIN r : text[b + k] = r[k]
            /\ \/ b + Len(r) = Len(text)
               \/ /\ ~IsWordChar(text[b + Len(r) + 1])
                  /\ \/ text[b + Len(r) + 1] # "."
                     \/ b + Len(r) + 1 = Len(text)
                     \/ ~IsWordChar(text[b + Len(r) + 2])

\* C20 as stated: a finding of a template is about a reference that follows
\* a clause keyword standing as a whole word, so a column whose name ends
\* in a keyword and is followed by another word gives no finding; and no
\* finding is about a table select, in any casing.
C20_Original ==
    SqlPassDone =>
        \A i \in DOMAIN Nodes :
            IsSqlTemplate(Nodes[i]) =>
               \A k \in DOMAIN ReportsAt(i) :
                  LET text == extractSqlFromTemplate(Nodes[i])
                      found == ReportsAt(i)[k]
                  IN  /\ \E a \in 0..Len(text) :
                            /\ RefAfterKeyword(text, a, RefOfFinding(found))
                            /\ a = 0 \/ ~IsWordChar(text[a])
                      /\ toLowerCase(found.data.table) # StrSelect

\* C20, what the code does: a finding of a template is about a reference
\* that follows the letters of a clause keyword, wherever they are written,
\* also at the end of a longer word; no finding is about a table select, in
\* any casing; and the word after a column whose name ends in from or update
\* is reported as an unqualified table.
C20_KeywordLetters ==
    SqlPassDone =>
        \A i \in DOMAIN Nodes :
            IsSqlTemplate(Nodes[i]) =>
               LET text == extractSqlFromTemplate(Nodes[i])
               IN  /\ \A k \in DOMAIN ReportsAt(i) :
                          /\ \E a \in 0..Len(text) :
                                RefAfterKeyword(text, a, RefOfFinding(ReportsAt(i)[k]))
                          /\ toLowerCase(ReportsAt(i)[k].data.table) # StrSelect
                   /\ \A col \in {Text.ValidFrom, Text.LastUpdate} :
                          OccursAt(text, col \o Space \o Text.X \o Space, 0) =>
                             CountOf(UnqualifiedFinding(i, Text.X)) = 1

\* C20 witness: in a file of module auth the template valid_from x FROM
\* auth.users has been analysed and its only finding is the unqualified
\* table x.
C20_Witness ==
    /\ SqlPassDone
    /\ currentModule = Some(Text.Auth)
    /\ Len(ast.body) = 1
    /\ IsSqlTemplate(Nodes[3])
    /\ extractSqlFromTemplate(Nodes[3]) =
          Text.ValidFrom \o Space \o Text.X \o Space
            \o KwFrom \o Space \o Qualified(Text.Auth, Text.Users) \o Space
    /\ reports = <<UnqualifiedFinding(3, Text.X)>>

\* the tag is the identifier sql, or a property access whose property is
\* the identifier sql
IsSqlTag(t) ==
    \/ t = Id(StrSql)
    \/ t.type = "MemberExpression" /\ t.property = Id(StrSql)

\* C16: when the pass is over, a tagged template whose tag is the identifier
\* sql or a property access with the property sql (this.sql, db.sql,
\* this.db.sql) has been analysed: each reference written in it outside
\* comments that is
\* unqualified or of another schema has its finding at the template.  No
\* other node has a finding: not a template literal without a tag and not a
\* template with another tag (gql, console.log, sql.unsafe, db['sql']),
\* whatever references its text holds.
C16_TagRecognition ==
    SqlPassDone =>
        \A i \in DOMAIN Nodes :
            IF Nodes[i].type = "TaggedTemplateExpression" /\ IsSqlTag(Nodes[i].tag)
            THEN NoComment(extractSqlFromTemplate(Nodes[i])) =>
                    \A r \in RefsWritten(Nodes[i]) :
                        NeedsFinding(r) => CountOf(FindingFor(i, r)) = 1
            ELSE ReportsAt(i) = <<>>

\* C16 witness: a template tagged this.db.sql with a table of another schema
\* has its finding.
C16_Witness ==
    /\ SqlPassDone
    /\ \E i \in DOMAIN Nodes :
          /\ Nodes[i].type = "TaggedTemplateExpression"
          /\ Nodes[i].tag = Member(Member(ThisExpr, Id(Text.Db)), Id(StrSql))
          /\ \E r \in RefsWritten(Nodes[i]) : IsQualifiedRef(r) /\ NeedsFinding(r)
          /\ Len(ReportsAt(i)) = 1

\* the literal segments of a template in order, with the placeholder in
\* each gap between two segments
SegmentsWithPlaceholders(n) ==
    Flatten([k \in 1..(2 * Len(n.quasi.quasis) - 1) |->
                IF k % 2 = 1 THEN n.quasi.quasis[(k + 1) \div 2].value.raw
                ELSE StrPlaceholder])

\* the references extracted from the literal segments, each on its own
RefsOfSegments(n) ==
    UNION {Range(extractTableNames(n.quasi.quasis[k].value.raw)) : k \in DOMAIN n.quasi.quasis}

\* the schema a template writes before an interpolated table: the word that
\* ends a literal segment together with a dot
SchemasBeforeInterpolation(n) ==
    {w \in {Text.Auth, Text.Org} :
        \E k \in DOMAIN n.quasi.expressions :
            endsWith(n.quasi.quasis[k].value.raw, Space \o w \o StrDot)}

\* C21 as stated: the flattened SQL of an analysed template is its literal
\* segments in order with one placeholder for each interpolated expression;
\* a template in which an interpolated expression fills a table position
\* (FROM ${x}, FROM ${x}.users, FROM auth.${x}) has no finding; and
\* interpolated values leave the references extracted from the literal text
\* as they are.
C21_Original ==
    SqlPassDone =>
        \A i \in DOMAIN Nodes :
            IsSqlTemplate(Nodes[i]) =>
               /\ extractSqlFromTemplate(Nodes[i]) = SegmentsWithPlaceholders(Nodes[i])
               /\ IF InterpolatesTable(Nodes[i])
                  THEN ReportsAt(i) = <<>>
                  ELSE Range(extractTableNames(extractSqlFromTemplate(Nodes[i])))
                          = RefsOfSegments(Nodes[i])

\* C21, what the code does: the flattened SQL is the literal segments in
\* order with one placeholder for each interpolated expression, and
\* interpolated values leave the references extracted from the literal text
\* as they are; FROM ${x} and FROM ${x}.users give no finding, but in
\* FROM auth.${x} the schema written before the interpolated table is
\* extracted as a table without a schema and reported as unqualifiedTable,
\* also in a file of the module of that name.
C21_SchemaTakenForTable ==
    SqlPassDone =>
        \A i \in DOMAIN Nodes :
            IsSqlTemplate(Nodes[i]) =>
               /\ extractSqlFromTemplate(Nodes[i]) = SegmentsWithPlaceholders(Nodes[i])
               /\ IF InterpolatesTable(Nodes[i])
                  THEN /\ Len(ReportsAt(i)) = Cardinality(SchemasBeforeInterpolation(Nodes[i]))
                       /\ \A w \in SchemasBeforeInterpolation(Nodes[i]) :
                              CountOf(UnqualifiedFinding(i, w)) = 1
                  ELSE Range(extractTableNames(extractSqlFromTemplate(Nodes[i])))
                          = RefsOfSegments(Nodes[i])

\* C21 witness: in a file of module auth the template FROM auth.${x} has
\* been analysed and its one finding is the unqualified table auth.
C21_Witness ==
    /\ SqlPassDone
    /\ currentModule = Some(Text.Auth)
    /\ Len(ast.body) = 1
    /\ IsSqlTemplate(Nodes[3])
    /\ Nodes[3].quasi.expressions = <<Id(Text.X)>>
    /\ extractSqlFromTemplate(Nodes[3]) =
          KwFrom \o Space \o Text.Auth \o StrDot \o StrPlaceholder \o Space
    /\ reports = <<UnqualifiedFinding(3, Text.Auth)>>

\* the positions of a query text that lie in a comment, read as SQL reads
\* it from position p on: outside comments (mode "code") -- opens a line
\* comment that ends before the next line terminator and /* opens a block
\* comment that ends with the next */
RECURSIVE CommentPositions(_, _, _)
CommentPositions(text, p, mode) ==
    IF p > Len(text) THEN {}
    ELSE IF mode = "code"
    THEN IF OccursAt(text, <<"-","-">>, p - 1)
         THEN {p, p + 1} \cup CommentPositions(text, p + 2, "line")
         ELSE IF OccursAt(text, <<"/","*">>, p - 1)
         THEN {p, p + 1} \cup CommentPositions(text, p + 2, "block")
         ELSE CommentPositions(text, p + 1, "code")
    ELSE IF mode = "line"
    THEN IF text[p] \in LineTerminators
         THEN CommentPositions(text, p + 1, "code")
         ELSE {p} \cup CommentPositions(text, p + 1, "line")
    ELSE IF OccursAt(text, <<"*","/">>, p - 1)
         THEN {p, p + 1} \cup CommentPositions(text, p + 2, "code")
         ELSE {p} \cup CommentPositions(text, p + 1, "block")

\* the places where a clause with the reference r is written outside every
\* comment
PlacesOutsideComments(text, r) ==
    {a \in PlacesOf(text, r) : (a + 1) \notin CommentPositions(text, 1, "code")}

\* the references written in the text, and those written outside comments
RefsInText(text) == {d.ref : d \in {c \in SqlClauses : Contains(text, c.text)}}
RefsOutsideComments(text) == {r \in RefsInText(text) : PlacesOutsideComments(text, r) # {}}

\* -- is written before position a on the line of a
DashesBeforeOnLine(text, a) ==
    \E b \in 0..(a - 1) :
        /\ OccursAt(text, <<"-","-">>, b)
        /\ \A k \in (b + 1)..a : text[k] \notin LineTerminators

\* C23 as stated: when the pass is over, a reference of an analysed
\* template that is written only inside a line comment or a block comment
\* has no finding, and every reference written outside all comments that is
\* unqualified or of another schema has its finding, also when a block
\* comment on the same line holds --.
C23_Original ==
    SqlPassDone =>
        \A i \in DOMAIN Nodes :
            (IsSqlTemplate(Nodes[i]) /\ Nodes[i].quasi.expressions = <<>>) =>
               LET text == extractSqlFromTemplate(Nodes[i])
               IN  /\ KeywordsAreWords(text) =>
                          \A r \in RefsInText(text) \ RefsOutsideComments(text) :
                              CountOf(FindingFor(i, r)) = 0
                   /\ \A r \in RefsOutsideComments(text) :
                          NeedsFinding(r) => CountOf(FindingFor(i, r)) = 1

\* C23, what the code does: a reference written only inside a comment has
\* no finding; line comments are removed first, from every -- to the end of
\* its line, also when the -- stands inside a block comment, so a reference
\* written outside all comments has its finding only if it is written
\* somewhere with no -- before it on its line: behind a block comment that
\* holds -- and ends on the same line it is lost.
C23_LineCommentsFirst ==
    SqlPassDone =>
        \A i \in DOMAIN Nodes :
            (IsSqlTemplate(Nodes[i]) /\ Nodes[i].quasi.expressions = <<>>) =>
               LET text == extractSqlFromTemplate(Nodes[i])
               IN  /\ KeywordsAreWords(text) =>
                          \A r \in RefsInText(text) \ RefsOutsideComments(text) :
                              CountOf(FindingFor(i, r)) = 0
                   /\ \A r \in RefsOutsideComments(text) :
                          NeedsFinding(r) =>
                             CountOf(FindingFor(i, r)) =
                                IF \E a \in PlacesOutsideComments(text, r) :
                                      ~DashesBeforeOnLine(text, a)
                                THEN 1 ELSE 0

\* C23 witness: in a file of module auth the template
\* /* -- */ DELETE FROM org.teams has been analysed and has no finding.
C23_Witness ==
    /\ SqlPassDone
    /\ currentModule = Some(Text.Auth)
    /\ Len(ast.body) = 1
    /\ IsSqlTemplate(Nodes[3])
    /\ extractSqlFromTemplate(Nodes[3]) =
          <<"/","*"," ","-","-"," ","*","/"," ">>
            \o KwDelete \o Space \o KwFrom \o Space \o Qualified(Text.Org, Text.Teams) \o Space
    /\ reports = <<>>

----------------------------------------------------------------------------
(* The two rules for application code, each run on its files and programs *)

InitSource == InitPrisma \/ InitSlonik

NextSource ==
    \/ NextPrisma
    \/ NextSlonik

SpecSource == InitSource /\ [][NextSource]_vars

\* C12: for a file whose path does not contain the module marker, or whose
\* name does not end in .ts or .tsx, or that has no module label, each of
\* the two rules for application code registers no listener and no finding
\* is ever emitted, whatever the program contains.
C12_GateClosed ==
    (pc # "create" /\ GateClosed) => (listeners = {} /\ reports = <<>>)

\* C12 witness: the SQL rule has passed over a file that is not TypeScript
\* and holds a sql template with a table of another schema, without a
\* finding.
C12_Witness ==
    /\ pc = "done"
    /\ rule = "no-cross-schema-slonik-access"
    /\ Contains(filename, options.modulePath)
    /\ ~matchesTsExtension(filename)
    /\ \E i \in DOMAIN Nodes :
          /\ IsSqlTemplate(Nodes[i])
          /\ \E r \in RefsWritten(Nodes[i]) : IsQualifiedRef(r)
    /\ visited > 0
    /\ reports = <<>>

\* the name of the file ends in .ts or .tsx
IsTypeScriptFile ==
    \E ext \in {ExtTs, ExtTsx} :
        /\ Len(filename) >= Len(ext)
        /\ \A i \in DOMAIN ext : filename[Len(filename) - Len(ext) + i] = ext[i]

\* C28 as stated: for a file whose name ends in .ts or .tsx, create() of
\* either rule returns listeners exactly when extractModuleFromPath returns
\* a label for the file name and the marker, also for a file name written
\* with backslashes.
C28_Original ==
    (pc # "create" /\ IsTypeScriptFile) =>
        (listeners # {} <=> extractModuleFromPath(filename, options.modulePath) # Null)

\* C28, what the code does: for a file whose name ends in .ts or .tsx,
\* create() of either rule returns listeners exactly when the file name as
\* it is written contains the marker and extractModuleFromPath returns a
\* label; a file name written with backslashes does not contain the marker
\* /modules/, so the file gets no listener and no finding although
\* extractModuleFromPath returns its module.
C28_GateReadsRawPath ==
    (pc # "create" /\ IsTypeScriptFile) =>
        /\ listeners # {} <=>
              /\ Contains(filename, options.modulePath)
              /\ extractModuleFromPath(filename, options.modulePath) # Null
        /\ (Contains(filename, <<Backslash>>) /\ options.modulePath = Text.ModulesMarker) =>
              listeners = {} /\ reports = <<>>

\* C28 witness: the pass over \app\modules\auth\x.ts with the marker
\* /modules/ is over; extractModuleFromPath returns auth for it, the file
\* holds an access to a model of another domain, and there is neither a
\* listener nor a finding.
C28_Witness ==
    /\ pc = "done"
    /\ rule = "no-cross-domain-prisma-access"
    /\ filename = replaceChar(FileInModule(Text.Auth, Text.FileTs), Slash, Backslash)
    /\ options.modulePath = Text.ModulesMarker
    /\ extractModuleFromPath(filename, options.modulePath) = Some(Text.Auth)
    /\ ast.body = <<Stmt(ThisPrismaCall(Text.OrganizationLc))>>
    /\ listeners = {}
    /\ reports = <<>>

----------------------------------------------------------------------------
(* parsers/prisma-parser and rules/no-cross-file-model-references *)

\* a field type as getSchema gives it: a string, or an object with a type tag
TypeName(n) == [typeof |-> "string", value |-> n]
ArrayOf(t) == [typeof |-> "object", type |-> "array", fieldType |-> t, name |-> Null]
OptionalOf(t) == [typeof |-> "object", type |-> "optional", fieldType |-> t, name |-> Null]
FuncType(n) == [typeof |-> "object", type |-> "function", fieldType |-> [typeof |-> "undefined"],
                name |-> Some(n)]
Undefined == [typeof |-> "undefined"]

Field(n, t) == [type |-> "field", name |-> n, fieldType |-> t]
Attribute(n) == [type |-> "attribute", name |-> n, fieldType |-> Undefined]
Decl(t, n, props) == [type |-> t, name |-> n, properties |-> props]

primitiveTypes == <<
    <<"S","t","r","i","n","g">>,
    <<"I","n","t">>,
    <<"F","l","o","a","t">>,
    <<"B","o","o","l","e","a","n">>,
    <<"D","a","t","e","T","i","m","e">>,
    <<"J","s","o","n">>,
    <<"B","y","t","e","s">> >>

\* parseForESLint(code): the Program node with its parser services; services
\* is Null when getSchema threw and no getPrismaAst is offered
parseForESLint(code) ==
    IF code.parses
    THEN Program(<<>>, Some([list |-> code.list]))
    ELSE Program(<<>>, Null)

\* extractBaseType unwrapping one wrapper only
extractBaseType_OneLevel(fieldType) ==
    IF fieldType.typeof = "string" THEN fieldType.value
    ELSE IF fieldType.typeof = "object" /\ fieldType.type \in {"array", "optional"}
    THEN IF fieldType.fieldType.typeof = "string" THEN fieldType.fieldType.value ELSE <<>>
    ELSE IF fieldType.typeof = "object" /\ fieldType.name # Null
    THEN fieldType.name[1]
    ELSE <<>>

\* extractBaseType(fieldType)
RECURSIVE extractBaseType(_)
extractBaseType(fieldType) ==
    IF fieldType.typeof = "string" THEN fieldType.value
    ELSE IF fieldType.typeof = "object"
    THEN CASE fieldType.type = "array" -> extractBaseType(fieldType.fieldType)
           [] fieldType.type = "optional" -> extractBaseType(fieldType.fieldType)
           [] OTHER -> IF ~isFalsy(fieldType.name)
                       THEN fieldType.name[1]
                       ELSE extractBaseType(fieldType.fieldType)
    ELSE <<>>

\* definedTypes collecting the models only
definedTypesOf_ModelsOnly(list) ==
    {list[k].name : k \in {j \in DOMAIN list : list[j].type = "model" /\ list[j].name # <<>>}}

\* definedTypes: the names of the models and enums of the file
definedTypesOf(list) ==
    {list[k].name : k \in {j \in DOMAIN list :
        list[j].type \in {"model", "enum"} /\ list[j].name # <<>>}}

\* property && property.type === 'field' && property.fieldType && property.name
isCheckedField(property) ==
    /\ property.type = "field"
    /\ property.fieldType.typeof # "undefined"
    /\ ~(property.fieldType.typeof = "string" /\ property.fieldType.value = <<>>)
    /\ property.name # <<>>

\* the body of item.properties.forEach for one property
propertyReports(property, at, definedTypes) ==
    LET referencedTypeName == extractBaseType(property.fieldType)
    IN  IF ~isCheckedField(property) THEN <<>>
        ELSE IF referencedTypeName = <<>> THEN <<>>
        ELSE IF arrayIncludes(primitiveTypes, referencedTypeName) THEN <<>>
        ELSE IF referencedTypeName \notin definedTypes
        THEN <<Report(at, "crossFileReference",
                      [field |-> property.name, model |-> referencedTypeName])>>
        ELSE <<>>

\* new RegExp(`^${fieldName}\\s+\\w+`) in getLineNumber throws a SyntaxError
\* when the pattern is no regular expression.  For a name of letters, digits
\* and parentheses that is when a parenthesis is closed that was not opened
\* or one is left open.
regExpThrows(fieldName) ==
    LET opened(i) == Cardinality({j \in 1..i : fieldName[j] = "("})
        closed(i) == Cardinality({j \in 1..i : fieldName[j] = ")"})
    IN  \/ \E i \in DOMAIN fieldName : closed(i) > opened(i)
        \/ opened(Len(fieldName)) # closed(Len(fieldName))

\* the second ast.list.forEach of the Program listener.  getLineNumber is
\* called for a field that is to be reported, before context.report; when it
\* throws, the catch block of the listener ends the traversal and the
\* findings reported so far stay reported.
crossFileReports(list, at) ==
    LET definedTypes == definedTypesOf(list)
        properties == Flatten([k \in DOMAIN list |->
                          IF list[k].type = "model" THEN list[k].properties ELSE <<>>])
        RECURSIVE props(_)
        props(ps) ==
            IF ps = <<>> THEN <<>>
            ELSE LET found == propertyReports(Head(ps), at, definedTypes)
                 IN  IF found # <<>> /\ regExpThrows(Head(ps).name)
                     THEN <<>>
                     ELSE found \o props(Tail(ps))
    IN  props(properties)

\* the host has the file parsed by the configured parser
ParseForESLint ==
    /\ pc = "start"
    /\ call.fn = "parseForESLint"
    /\ ast' = parseForESLint(call.code)
    /\ todo' = Preorder(parseForESLint(call.code))
    /\ pc' = "create"
    /\ UNCHANGED <<call, ret, rule, filename, options, disk, visited, listeners,
                   currentModule, modelToDomain, reportedConfigError, reports>>

\* the host has the file parsed by another parser, whose services offer
\* getPrismaAst
ParseWithOtherParser ==
    /\ pc = "start"
    /\ call.fn = "otherParser"
    /\ ast' = Program(<<>>, Some([list |-> call.code.list]))
    /\ todo' = Preorder(Program(<<>>, Some([list |-> call.code.list])))
    /\ pc' = "create"
    /\ UNCHANGED <<call, ret, rule, filename, options, disk, visited, listeners,
                   currentModule, modelToDomain, reportedConfigError, reports>>

\* create(context) of no-cross-file-model-references
CreateCrossFile ==
    /\ pc = "create"
    /\ rule = "no-cross-file-model-references"
    /\ pc' = "visit"
    /\ listeners' = IF endsWith(filename, PrismaExt) THEN {"Program"} ELSE {}
    /\ UNCHANGED <<call, ret, rule, filename, options, disk, ast, todo, visited,
                   currentModule, modelToDomain, reportedConfigError, reports>>

\* the Program listener of no-cross-file-model-references
ProgramCrossFile ==
    /\ pc = "visit"
    /\ rule = "no-cross-file-model-references"
    /\ NextNode.type = "Program"
    /\ "Program" \in listeners
    /\ IF NextNode.services = Null
       THEN UNCHANGED reports
       ELSE reports' = reports \o crossFileReports(NextNode.services[1].list, visited + 1)
    /\ Advance
    /\ UNCHANGED <<call, ret, rule, filename, options, disk, ast, listeners,
                   currentModule, modelToDomain, reportedConfigError>>

----------------------------------------------------------------------------
(* Schema files the cross-file rule is run on *)

MaxWrapDepth == 2

PostModel(t1, t2) ==
    Decl("model", Text.Post, <<Field(Text.FieldA, t1), Attribute(Text.Index), Field(Text.FieldB, t2)>>)

SchemaCodes ==
    LET BaseTypeNames == {primitiveTypes[1], Text.User, Text.Use, Text.Role, Text.Organization}
        RECURSIVE WrappedTypes(_)
        WrappedTypes(depth) ==
            IF depth = 0
            THEN {TypeName(n) : n \in BaseTypeNames}
            ELSE LET inner == WrappedTypes(depth - 1)
                 IN  inner \cup {ArrayOf(t) : t \in inner} \cup {OptionalOf(t) : t \in inner}
        FieldTypes ==
            WrappedTypes(MaxWrapDepth)
                \cup {FuncType(Text.Unsupported), ArrayOf(FuncType(Text.Unsupported)),
                      TypeName(<<>>), OptionalOf(Undefined)}
        \* the types of the model's second field
        SecondFieldTypes ==
            WrappedTypes(1) \cup {FuncType(Text.Unsupported), TypeName(<<>>), OptionalOf(Undefined)}
        \* the declarations around the model under test: none, a model User before
        \* or after it, an enum Role, both
        Surroundings ==
            { [before |-> <<>>, after |-> <<>>],
              [before |-> <<Decl("model", Text.User, <<Field(Text.Id, TypeName(primitiveTypes[2]))>>)>>, after |-> <<>>],
              [before |-> <<>>, after |-> <<Decl("model", Text.User, <<>>)>>],
              [before |-> <<Decl("generator", Text.Client, <<>>)>>,
               after |-> <<Decl("enum", Text.Role, <<>>)>>],
              [before |-> <<Decl("enum", Text.Role, <<>>)>>, after |-> <<Decl("model", Text.User, <<>>)>>] }
    IN  {[parses |-> TRUE, list |-> sur.before \o <<PostModel(t1, t2)>> \o sur.after] :
            sur \in Surroundings, t1 \in FieldTypes, t2 \in SecondFieldTypes}
            \cup {[parses |-> FALSE, list |-> <<>>]}

\* trees another parser's getPrismaAst may return: a model with a field whose
\* name is no identifier, before or after a field with a name that is one
OtherParserTrees ==
    LET Names == {Text.FieldA, <<"a", "(">>, <<"(", "a", ")">>}
        Types == {TypeName(primitiveTypes[1]), TypeName(Text.User), ArrayOf(TypeName(Text.Role))}
        Models == {Decl("model", Text.Post, <<Field(ns[1], t1), Field(ns[2], t2)>>) :
                      ns \in {q \in Names \X Names : q[1] # q[2]},
                      t1 \in Types, t2 \in Types}
    IN  {[parses |-> TRUE, list |-> <<m>>] : m \in Models}
            \cup {[parses |-> TRUE, list |-> <<m, Decl("enum", Text.Role, <<>>)>>] : m \in Models}

InitCrossFile ==
    LET CrossFileNames ==
            { Text.Auth \o PrismaExt,
              <<"c","o","n","f","i","g",".","j","s">> }
    IN  /\ pc = "start"
        /\ call \in {[fn |-> "parseForESLint", code |-> c] : c \in SchemaCodes}
                      \cup {[fn |-> "otherParser", code |-> c] : c \in OtherParserTrees}
        /\ ret = Null
        /\ rule = "no-cross-file-model-references"
        /\ filename \in CrossFileNames
        /\ options = NoOptions
        /\ disk = NoDisk
        /\ ast = NoProgram
        /\ todo = <<>>
        /\ visited = 0
        /\ listeners = {}
        /\ currentModule = Null
        /\ modelToDomain = EmptyMapping
        /\ reportedConfigError = FALSE
        /\ reports = <<>>

NextCrossFile ==
    \/ ParseForESLint
    \/ ParseWithOtherParser
    \/ CreateCrossFile
    \/ HostSkip
    \/ ProgramCrossFile

SpecCrossFile == InitCrossFile /\ [][NextCrossFile]_vars

----------------------------------------------------------------------------
(* Properties of the cross-file rule, checked under SpecCrossFile *)

CrossFilePassDone == rule = "no-cross-file-model-references" /\ pc = "done"

\* the name inside any number of array and optional wrappers; Null for a
\* descriptor of another shape
RECURSIVE BaseOfWrapped(_)
BaseOfWrapped(t) ==
    IF t.typeof = "string" THEN Some(t.value)
    ELSE IF t.typeof = "object" /\ t.type \in {"array", "optional"}
    THEN BaseOfWrapped(t.fieldType)
    ELSE Null

\* the fields of the model declarations of a file
ModelFields(list) ==
    {list[k].properties[j] : <<k, j>> \in
        {<<k, j>> \in (DOMAIN list) \X (1..8) :
            /\ list[k].type = "model"
            /\ j \in DOMAIN list[k].properties
            /\ list[k].properties[j].type = "field"}}

\* the names declared as a model or an enum anywhere in the file
DeclaredInFile(list) ==
    {d.name : d \in {list[k] : k \in {j \in DOMAIN list : list[j].type \in {"model", "enum"}}}}

ReportsOnField(n) == SelectSeq(reports, LAMBDA r : r.data.field = n)

\* the field refers to a type that is no primitive and is not declared in
\* the file
IsMissingType(list, f) ==
    /\ BaseOfWrapped(f.fieldType) # Null
    /\ BaseOfWrapped(f.fieldType)[1] # <<>>
    /\ BaseOfWrapped(f.fieldType)[1] \notin DeclaredInFile(list) \cup Range(primitiveTypes)

\* the fields of the models of a file, in the order of the file
FieldsInOrder(list) ==
    SelectSeq(Flatten([k \in DOMAIN list |->
                  IF list[k].type = "model" THEN list[k].properties ELSE <<>>]),
              LAMBDA q : q.type = "field")

\* a name that is not a regular expression: it closes a parenthesis that is
\* not open or leaves one open
IsNoPattern(n) ==
    \/ \E i \in DOMAIN n :
          Cardinality({j \in 1..i : n[j] = ")"}) > Cardinality({j \in 1..i : n[j] = "("})
    \/ Cardinality({j \in DOMAIN n : n[j] = ")"}) # Cardinality({j \in DOMAIN n : n[j] = "("})

\* looking up the line of field f raises an exception
ThrowsAt(list, f) == IsMissingType(list, f) /\ IsNoPattern(f.name)

\* the Program listener ran on a tree and an exception was raised in it
ListenerThrew ==
    /\ "Program" \in listeners
    /\ ast.services # Null
    /\ \E f \in ModelFields(ast.services[1].list) : ThrowsAt(ast.services[1].list, f)

\* C3: when the pass is over, a field whose base type under any nesting of
\* array and optional wrappers is declared as a model or an enum anywhere in
\* the file, or is one of String, Int, Float, Boolean, DateTime, Json, Bytes,
\* has no crossFileReference finding.
C3_NoFindingForLocalOrPrimitive ==
    CrossFilePassDone =>
        \A f \in ModelFields(call.code.list) :
            (/\ BaseOfWrapped(f.fieldType) # Null
             /\ BaseOfWrapped(f.fieldType)[1] \in
                    DeclaredInFile(call.code.list) \cup Range(primitiveTypes)) =>
               ReportsOnField(f.name) = <<>>

\* C3 witness: a schema file whose model has a doubly wrapped field of the
\* model User, declared later in the file, and a wrapped field of the enum
\* Role has been checked and nothing was reported.
C3_Witness ==
    /\ CrossFilePassDone
    /\ "Program" \in listeners
    /\ ast.services # Null
    /\ \E k \in DOMAIN call.code.list :
          /\ call.code.list[k] = PostModel(ArrayOf(OptionalOf(TypeName(Text.User))),
                                           OptionalOf(TypeName(Text.Role)))
          /\ \E j \in DOMAIN call.code.list : j > k /\ call.code.list[j].name = Text.User
    /\ reports = <<>>

\* C4: when the pass over a parsed schema file is over, every field of a
\* model whose base type name under any nesting of array and optional
\* wrappers is non-empty, is no primitive name and is not declared as a model
\* or an enum in the file has exactly one finding, crossFileReference with
\* the field's name and the base type name; two fields with the same missing
\* type have one finding each.
C4_OneFindingPerMissingType ==
    (/\ CrossFilePassDone
     /\ "Program" \in listeners
     /\ call.fn = "parseForESLint"
     /\ call.code.parses) =>
        \A f \in ModelFields(call.code.list) :
            (/\ BaseOfWrapped(f.fieldType) # Null
             /\ BaseOfWrapped(f.fieldType)[1] # <<>>
             /\ BaseOfWrapped(f.fieldType)[1] \notin
                    DeclaredInFile(call.code.list) \cup Range(primitiveTypes)) =>
               /\ Len(ReportsOnField(f.name)) = 1
               /\ ReportsOnField(f.name)[1].messageId = "crossFileReference"
               /\ ReportsOnField(f.name)[1].data =
                     [field |-> f.name, model |-> BaseOfWrapped(f.fieldType)[1]]

C4_Witness ==
    /\ CrossFilePassDone
    /\ \E k \in DOMAIN call.code.list :
          call.code.list[k] = PostModel(ArrayOf(OptionalOf(TypeName(Text.Organization))),
                                        TypeName(Text.Organization))
    /\ Len(reports) = 2
    /\ reports[1].data = [field |-> Text.FieldA, model |-> Text.Organization]
    /\ reports[2].data = [field |-> Text.FieldB, model |-> Text.Organization]

----------------------------------------------------------------------------
(* The loops of a pass, one iteration per step: the while loop of          *)
(* findProjectRoot, the while loops of extractTableNames and the calls of   *)
(* extractBaseType.  call holds the arguments and the locals, ret the       *)
(* value returned.                                                          *)

\* findProjectRoot whose loop takes the parent of the file again
FindProjectRootStep_RestartsFromFile ==
    /\ call.fn = "findProjectRoot"
    /\ \/ /\ pc = "start"
          /\ call' = [call EXCEPT !.dir = dirname(call.filePath)]
          /\ pc' = "loop"
          /\ UNCHANGED ret
       \/ /\ pc = "loop"
          /\ IF call.dir = dirname(call.dir)
             THEN /\ ret' = Null
                  /\ pc' = "done"
                  /\ UNCHANGED call
             ELSE IF existsPackageJson(call.disk, call.dir)
             THEN /\ ret' = Some(call.dir)
                  /\ pc' = "done"
                  /\ UNCHANGED call
             ELSE /\ call' = [call EXCEPT !.dir = dirname(call.filePath)]
                  /\ UNCHANGED <<pc, ret>>
    /\ UNCHANGED checkerVars

\* findProjectRoot(filePath): let dir = path.dirname(filePath), then one
\* test of the while condition and one pass through its body; Null is
\* returned for the Error thrown after the loop
FindProjectRootStep ==
    /\ call.fn = "findProjectRoot"
    /\ \/ /\ pc = "start"
          /\ call' = [call EXCEPT !.dir = dirname(call.filePath)]
          /\ pc' = "loop"
          /\ UNCHANGED ret
       \/ /\ pc = "loop"
          /\ IF call.dir = dirname(call.dir)
             THEN /\ ret' = Null
                  /\ pc' = "done"
                  /\ UNCHANGED call
             ELSE IF existsPackageJson(call.disk, call.dir)
             THEN /\ ret' = Some(call.dir)
                  /\ pc' = "done"
                  /\ UNCHANGED call
             ELSE /\ call' = [call EXCEPT !.dir = dirname(call.dir)]
                  /\ UNCHANGED <<pc, ret>>
    /\ UNCHANGED checkerVars

\* extractTableNames(sql): the cleaning of the text, then one pattern.exec
\* of the while condition and one pass through its body; a pattern whose
\* exec returns null has its lastIndex back at 0 and forEach goes on to the
\* next pattern, or the names are returned without their duplicates.  What
\* the replace calls and pattern.exec return for the text of the call is
\* held in call.cleaned and call.found.
ExtractTableNamesStep ==
    /\ call.fn = "extractTableNames"
    /\ \/ /\ pc = "start"
          /\ call' = [call EXCEPT !.cleanSql = call.cleaned]
          /\ pc' = "loop"
          /\ UNCHANGED ret
       \/ /\ pc = "loop"
          /\ \E match \in {call.found[call.pattern][call.lastIndex]} :
             LET schema == match[1].schema
                 table == match[1].table
                 pushed == IF toLowerCase(table) # StrSelect
                           THEN IF schema # Null
                                THEN <<schema[1] \o <<".">> \o table>>
                                ELSE <<table>>
                           ELSE <<>>
             IN  IF match # Null
                 THEN /\ call' = [call EXCEPT !.tableNames = @ \o pushed,
                                              !.lastIndex = match[1].lastIndex]
                      /\ UNCHANGED <<pc, ret>>
                 ELSE IF call.pattern < Len(patterns)
                 THEN /\ call' = [call EXCEPT !.pattern = @ + 1, !.lastIndex = 0]
                      /\ UNCHANGED <<pc, ret>>
                 ELSE /\ ret' = Some(uniqueInOrder(call.tableNames))
                      /\ pc' = "done"
                      /\ UNCHANGED call
    /\ UNCHANGED checkerVars

\* one call of extractBaseType(fieldType): arg is the argument of the call
\* in progress; the values returned are handed back unchanged, or as '' when
\* they are falsy
ExtractBaseTypeStep ==
    /\ call.fn = "extractBaseType"
    /\ pc \in {"start", "loop"}
    /\ LET return(v) ==
               /\ ret' = Some(v)
               /\ pc' = "done"
               /\ UNCHANGED call
           recurse ==
               /\ call' = [call EXCEPT !.arg = call.arg.fieldType]
               /\ pc' = "loop"
               /\ UNCHANGED ret
       IN  IF call.arg.typeof = "string" THEN return(call.arg.value)
           ELSE IF call.arg.typeof = "object"
           THEN CASE call.arg.type = "array" -> recurse
                  [] call.arg.type = "optional" -> recurse
                  [] OTHER -> IF ~isFalsy(call.arg.name)
                              THEN return(call.arg.name[1])
                              ELSE recurse
           ELSE return(<<>>)
    /\ UNCHANGED checkerVars

\* the number of clauses of the query texts the scans are run on
MaxScanClauses == 2

\* the file names, file systems, query texts and field types the loops are
\* run on
InitLoops ==
    LET FilePaths ==
            { Text.App \o Text.ModulesMarker \o Text.Auth \o <<Slash>> \o Text.FileTs,
              Text.ModulesMarker \o Text.Auth \o <<Slash>> \o Text.FileTs,
              <<Slash>> \o Text.FileTs,
              <<Slash>> \o Text.App \o <<Slash>> \o Text.FileTs,
              Text.FileTs,
              Text.A \o Text.ModulesMarker \o Text.Auth \o <<Slash>> \o Text.FileTs,
              Text.Lib \o <<Slash>> \o Text.FileTs,
              <<>> }
        ProjectDirs ==
            { <<Slash>>, StrDot, Text.App, Text.A, Text.Lib,
              Text.App \o Text.ModulesMarker \o Text.Auth,
              <<"/","m","o","d","u","l","e","s">> }
        \* DELETE FROM org.teams, INSERT INTO shared.logs, UPDATE users
        Clauses ==
            {c \in SqlClauses : c.ref \in {Qualified(Text.Org, Text.Teams),
                                            Qualified(StrShared, Text.Logs), Text.Users}}
        Queries ==
            {Flatten([i \in DOMAIN cs |-> cs[i].text]) : cs \in SeqsOf(Clauses, 0, MaxScanClauses)}
                \cup {c.text : c \in SqlClauses}
                \cup {c.text \o <<"-","-">> \o d.text \o <<"\n">> \o c.text :
                         c \in Clauses, d \in Clauses}
                \cup { KwDelete \o Space \o KwFrom,
                       KwFrom \o Space \o <<".">> \o Text.Users,
                       KwFrom \o Space \o StrSelect \o Space \o KwFrom \o Space \o Text.Users \o <<".">>,
                       KwInsert \o Text.Users \o Space \o KwInto }
        RECURSIVE WrappedTypes(_)
        WrappedTypes(depth) ==
            IF depth = 0
            THEN {TypeName(Text.User), TypeName(<<>>), Undefined, FuncType(Text.Unsupported),
                  [FuncType(Text.Unsupported) EXCEPT !.name = Null],
                  [FuncType(Text.Unsupported) EXCEPT !.name = Null,
                                                     !.fieldType = TypeName(Text.Role)]}
            ELSE LET inner == WrappedTypes(depth - 1)
                 IN  inner \cup {ArrayOf(t) : t \in inner} \cup {OptionalOf(t) : t \in inner}
    IN  /\ pc = "start"
        /\ ret = Null
        /\ IdleChecker
        /\ call \in {[fn |-> "findProjectRoot", filePath |-> f, dir |-> <<>>,
                      disk |-> [packageJson |-> pj, schemaDirs |-> <<>>]] :
                         f \in FilePaths, pj \in SUBSET ProjectDirs}
                    \cup {[fn |-> "extractTableNames", sql |-> q,
                           cleaned |-> c,
                           found |-> [p \in DOMAIN patterns |->
                                        [i \in 0..Len(c) |-> exec(c, patterns[p], i)]],
                           cleanSql |-> <<>>, pattern |-> 1, lastIndex |-> 0,
                           tableNames |-> <<>>] : <<q, c>> \in {<<t, cleanSqlOf(t)>> : t \in Queries}}
                    \cup {[fn |-> "extractBaseType", fieldType |-> t, arg |-> t] :
                             t \in WrappedTypes(MaxWrapDepth + 1)}

NextLoops ==
    \/ FindProjectRootStep
    \/ ExtractTableNamesStep
    \/ ExtractBaseTypeStep

\* the code runs to completion: a loop that can take a step takes it
SpecLoops == InitLoops /\ [][NextLoops]_vars /\ WF_vars(NextLoops)

----------------------------------------------------------------------------
(* Properties of the loops, checked under SpecLoops *)

\* the number of wrappers around a field type
RECURSIVE Nesting(_)
Nesting(t) == IF t.typeof = "object" THEN 1 + Nesting(t.fieldType) ELSE 0

\* a pass through the body of findProjectRoot's loop moves from an absolute
\* directory to a strictly shorter absolute one, and from a relative
\* directory to a strictly shorter one or, from a name of one character, to
\* "."; the loop is left without a result only at a directory that is its
\* own parent: the root, or "." for a relative file name
WalkMovesUp ==
    call.fn = "findProjectRoot" /\ pc = "loop" =>
        /\ pc' = "loop" =>
              IF call.dir[1] = Slash
              THEN /\ Len(call'.dir) < Len(call.dir)
                   /\ call'.dir[1] = Slash
              ELSE \/ Len(call'.dir) < Len(call.dir)
                   \/ Len(call.dir) = 1 /\ call.dir # StrDot /\ call'.dir = StrDot
        /\ pc' = "done" /\ ret' = Null =>
              call.dir = IF call.filePath # <<>> /\ call.filePath[1] = Slash
                         THEN <<Slash>>
                         ELSE StrDot

\* a match moves the position of the scan forward, within the text; a
\* failed match moves the scan to the next pattern, from position 0
ScanAdvances ==
    call.fn = "extractTableNames" /\ pc = "loop" /\ pc' = "loop" =>
        IF call'.pattern = call.pattern
        THEN /\ call.lastIndex < call'.lastIndex
             /\ call'.lastIndex <= Len(call.cleanSql)
        ELSE /\ call'.pattern = call.pattern + 1
             /\ call'.lastIndex = 0

\* a recursive call of extractBaseType is on a type with one wrapper less
UnwrapDescends ==
    call.fn = "extractBaseType" /\ pc' = "loop" =>
        Nesting(call'.arg) + 1 = Nesting(call.arg)

====
